---- MODULE Spec2Model ----
(***************************************************************************)
(* A model of the prand library (MRG32k3a and MT19937 with jump-ahead):    *)
(* the generator handle, the error cell, the allocations, and the          *)
(* operations init / get / jump / jump_all / reset / reset_all / destroy.  *)
(*                                                                         *)
(* TLC's integers are 32-bit, so the machine words are narrowed: every     *)
(* uint32_t of the source is a WORD_SIZE = 8 bit word here, the MRG32k3a   *)
(* moduli are the primes 2^8 - 5 and 2^8 - 15 (2^32 - 209 and 2^32 - 22853 *)
(* in the source) and MT19937 has N = 3 words, M = 2, hence K = 17 state   *)
(* bits; MA, phi_bit_pos and phi_block_pos are the values that belong to   *)
(* that generator.  The code around these numbers is translated as it      *)
(* stands.  The 64-bit step keeps its full width: it is a little-endian    *)
(* sequence of 22 octal digits, which is the form the jump code reads.     *)
(***************************************************************************)
EXTENDS Integers, Sequences, FiniteSets, TLC

(***************************************************************************)
(* Bounds of the explored inputs.                                          *)
(***************************************************************************)
MaxSeed == 2
MaxStep == 1
MaxStreams == 2
MaxOps == 1

(***************************************************************************)
(* Let(v, F) is F(v) with v evaluated once: TLC re-evaluates an operator   *)
(* argument at every use, a bound variable is a value.                     *)
(***************************************************************************)
Let(v, F(_)) == CHOOSE r \in { F(a) : a \in {v} } : TRUE

(***************************************************************************)
(* For(F, lo, hi, acc) is acc after the loop "for i = lo .. hi: acc =      *)
(* F(acc, i)"; the range is halved so that the evaluation stays shallow.   *)
(***************************************************************************)
RECURSIVE For(_, _, _, _)
For(F(_, _), lo, hi, acc) ==
  IF lo > hi THEN acc
  ELSE IF lo = hi THEN F(acc, lo)
  ELSE Let(For(F, lo, (lo + hi) \div 2, acc),
           LAMBDA a : For(F, (lo + hi) \div 2 + 1, hi, a))

(***************************************************************************)
(* Words and bit operations.                                               *)
(***************************************************************************)
WORD_SIZE == 8

RECURSIVE Pow2(_)
Pow2(n) == IF n = 0 THEN 1 ELSE 2 * Pow2(n - 1)

WordMod == Pow2(WORD_SIZE)

Xor4Tab ==
  [a \in 0..15 |-> [b \in 0..15 |->
     ((a + b) % 2)
     + 2 * (((a \div 2) + (b \div 2)) % 2)
     + 4 * (((a \div 4) + (b \div 4)) % 2)
     + 8 * (((a \div 8) + (b \div 8)) % 2)]]

And4Tab ==
  [a \in 0..15 |-> [b \in 0..15 |->
     ((a % 2) * (b % 2))
     + 2 * (((a \div 2) % 2) * ((b \div 2) % 2))
     + 4 * (((a \div 4) % 2) * ((b \div 4) % 2))
     + 8 * ((a \div 8) * (b \div 8))]]

RECURSIVE Xor(_, _)
Xor(a, b) ==
  IF a = 0 THEN b
  ELSE IF b = 0 THEN a
  ELSE Xor4Tab[a % 16][b % 16] + 16 * Xor(a \div 16, b \div 16)

RECURSIVE And(_, _)
And(a, b) ==
  IF a = 0 \/ b = 0 THEN 0
  ELSE And4Tab[a % 16][b % 16] + 16 * And(a \div 16, b \div 16)

Or(a, b) == a + b - And(a, b)

\* x << k and x >> k on a WORD_SIZE-bit word (k >= WORD_SIZE shifts everything out)
Shl(x, k) == IF k >= WORD_SIZE THEN 0 ELSE (x * Pow2(k)) % WordMod
Shr(x, k) == IF k >= WORD_SIZE THEN 0 ELSE x \div Pow2(k)

(***************************************************************************)
(* uint64_t step: 22 octal digits, least significant first.                *)
(***************************************************************************)
NDIGIT == 22

RECURSIVE Digit(_, _)
Digit(n, k) == IF k = 1 THEN n % 8 ELSE Digit(n \div 8, k - 1)

U64(n) == [k \in 1..NDIGIT |-> Digit(n, k)]

\* 1 << 63 plus a small n
Bit63(n) == [k \in 1..NDIGIT |-> IF k = NDIGIT THEN 1 ELSE U64(n)[k]]

IsZero(u) == \A k \in 1..NDIGIT : u[k] = 0

RECURSIVE GtFrom(_, _, _)
GtFrom(a, b, k) ==
  IF k = 0 THEN FALSE
  ELSE IF a[k] # b[k] THEN a[k] > b[k]
  ELSE GtFrom(a, b, k - 1)

U64Gt(a, b) == GtFrom(a, b, NDIGIT)

\* value of a step known to be small
RECURSIVE ValFrom(_, _)
ValFrom(u, k) == IF k > NDIGIT THEN 0 ELSE u[k] + 8 * ValFrom(u, k + 1)

Val(u) == ValFrom(u, 1)

\* n >>= 3
Shr3(u) == [k \in 1..NDIGIT |-> IF k = NDIGIT THEN 0 ELSE u[k + 1]]

PRAND_ERR_MEMORY == -1
PRAND_ERR_MEMORY_JUMP == -2
PRAND_ERR_STEP == -3
PRAND_ERR_UNDEF_RNG == -4
PRAND_WARN_SEED == 1
PRAND_IS_ERROR(e) == e < 0

PRAND_RNG_MRG32K3A == 0
PRAND_RNG_MT19937 == 1

DEFAULT_SEED == 1

NULL == [null |-> TRUE]

\* the events of the allocator, in the order of the calls
Malloc(blk, ok) == [ev |-> "malloc", blk |-> blk, ok |-> ok]
Free(blk) == [ev |-> "free", blk |-> blk]
\* a read or write of the block blk: "poly" is the block of get_poly, "A"
\* the arrays A1, A2 that matrix_pow fills
Use(blk) == [ev |-> "use", blk |-> blk]

\* a call of jump or jump_seq made inside init, reset or reset_all: the
\* function, and the states and the error cell as the call finds them
Call(fn, st, err) == [fn |-> fn, st |-> st, err |-> err]
NoCall == [fn |-> "none", st |-> NULL, err |-> 0]

\* the content of storage that malloc returned and nothing has written yet
Uninit == [uninit |-> TRUE]
\* a value read from such storage
Indet == [indeterminate |-> TRUE]

(***************************************************************************)
(* MRG32k3a (src/src/mrg32k3a.c).                                          *)
(***************************************************************************)
m1 == 251
m2 == 241
a12 == 1403580
a13 == -810728
a21 == 527612
a23 == -1370589
add1 == m1 * 810728
add2 == m2 * 1370589

PRAND_LCG(n) == (69069 * n + 1) % WordMod

mrg32k3a_seed(seed) ==
  LET x1 == PRAND_LCG(seed)
      x2 == PRAND_LCG(x1)
      x3 == PRAND_LCG(x2)
      x4 == PRAND_LCG(x3)
      x5 == PRAND_LCG(x4)
      x6 == PRAND_LCG(x5)
  IN  [s10 |-> x1 % m1, s11 |-> x2 % m1, s12 |-> x3 % m1,
       s20 |-> x4 % m2, s21 |-> x5 % m2, s22 |-> x6 % m2]

\* mrg32k3a_get with the first component left unreduced
mrg32k3a_get_unreduced(stat) ==
  IF stat = Uninit THEN [st |-> Uninit, out |-> Indet]
  ELSE
    LET p1 == a12 * stat.s11 + a13 * stat.s10 + add1
        p2 == (a21 * stat.s22 + a23 * stat.s20 + add2) % m2
    IN  [st  |-> [s10 |-> stat.s11, s11 |-> stat.s12, s12 |-> p1,
                  s20 |-> stat.s21, s21 |-> stat.s22, s22 |-> p2],
         out |-> IF p1 <= p2 THEN p1 - p2 + m1 ELSE p1 - p2]

\* mrg32k3a_get combining with p1 < p2 in place of p1 <= p2
mrg32k3a_get_strict(stat) ==
  IF stat = Uninit THEN [st |-> Uninit, out |-> Indet]
  ELSE
    LET p1 == (a12 * stat.s11 + a13 * stat.s10 + add1) % m1
        p2 == (a21 * stat.s22 + a23 * stat.s20 + add2) % m2
    IN  [st  |-> [s10 |-> stat.s11, s11 |-> stat.s12, s12 |-> p1,
                  s20 |-> stat.s21, s21 |-> stat.s22, s22 |-> p2],
         out |-> IF p1 < p2 THEN p1 - p2 + m1 ELSE p1 - p2]

\* the state after the draw, and the value returned
mrg32k3a_get(stat) ==
  IF stat = Uninit THEN [st |-> Uninit, out |-> Indet]
  ELSE
    LET p1 == (a12 * stat.s11 + a13 * stat.s10 + add1) % m1
        p2 == (a21 * stat.s22 + a23 * stat.s20 + add2) % m2
    IN  [st  |-> [s10 |-> stat.s11, s11 |-> stat.s12, s12 |-> p1,
                  s20 |-> stat.s21, s21 |-> stat.s22, s22 |-> p2],
         out |-> IF p1 <= p2 THEN p1 - p2 + m1 ELSE p1 - p2]

\* out[] of matrix_dot
matrix_dot_out(A, B, m) ==
  [x \in 0..8 |->
     LET r == 3 * (x \div 3)
         c == x % 3
     IN  (((A[r] * B[c]) % m) + ((A[r + 1] * B[c + 3]) % m)
          + ((A[r + 2] * B[c + 6]) % m)) % m]

\* C = (A * B) % m, computed into out[] and then copied to C
matrix_dot(A, B, m) ==
  Let(A, LAMBDA A_ : Let(B, LAMBDA B_ : matrix_dot_out(A_, B_, m)))

\* The one-step matrices A1 and A2 of the recurrence.
MrgA1 == [x \in 0..8 |->
            IF x \in {1, 5} THEN 1
            ELSE IF x = 6 THEN a13 % m1
            ELSE IF x = 7 THEN a12 % m1
            ELSE 0]
MrgA2 == [x \in 0..8 |->
            IF x \in {1, 5} THEN 1
            ELSE IF x = 6 THEN a23 % m2
            ELSE IF x = 8 THEN a21 % m2
            ELSE 0]

MRG32K3A_MAX_STEP_B8 == 21

\* The tables of mrg32k3a_jump.c: entry [i][j] is A^((j + 1) * 8^i) mod m.
\* Row i + 1 starts from the 8th power of the first entry of row i.
MrgRow(B, m) ==
  For(LAMBDA row, j : Append(row, matrix_dot(B, row[j], m)), 1, 6, <<B>>)

MrgTable(A, m) ==
  For(LAMBDA tab, i :
        Append(tab, MrgRow(matrix_dot(tab[i][1], tab[i][7], m), m)),
      1, MRG32K3A_MAX_STEP_B8 - 1, <<MrgRow(A, m)>>)

A1Table == MrgTable(MrgA1, m1)
A2Table == MrgTable(MrgA2, m2)

A1gj8i(i, j) == A1Table[i + 1][j + 1]
A2gj8i(i, j) == A2Table[i + 1][j + 1]

\* the pass of matrix_pow reading row 0 of the tables at every digit
matrix_pow_digit_row0(c, i) ==
  IF IsZero(c.n) THEN c
  ELSE
    LET j == c.n[1]
    IN  IF j = 0 THEN [c EXCEPT !.n = Shr3(c.n)]
        ELSE IF ~c.init
          THEN [n |-> Shr3(c.n), init |-> TRUE,
                A |-> [A1 |-> A1gj8i(0, j - 1), A2 |-> A2gj8i(0, j - 1)],
                used |-> Append(c.used, <<0, j - 1>>), ndot |-> c.ndot]
          ELSE [n |-> Shr3(c.n), init |-> TRUE,
                A |-> [A1 |-> matrix_dot(A1gj8i(0, j - 1), c.A.A1, m1),
                       A2 |-> matrix_dot(A2gj8i(0, j - 1), c.A.A2, m2)],
                used |-> Append(c.used, <<0, j - 1>>), ndot |-> c.ndot + 1]

\* One pass of the loop "while (n)" of matrix_pow, a pass after n reached 0
\* doing nothing: A is [A1, A2] once init is set; used lists the table
\* entries <<i, j - 1>> read so far, ndot counts the products.
matrix_pow_digit(c, i) ==
  IF IsZero(c.n) THEN c
  ELSE
    LET j == c.n[1]
    IN  IF j = 0 THEN [c EXCEPT !.n = Shr3(c.n)]
        ELSE IF ~c.init
          THEN [n |-> Shr3(c.n), init |-> TRUE,
                A |-> [A1 |-> A1gj8i(i, j - 1), A2 |-> A2gj8i(i, j - 1)],
                used |-> Append(c.used, <<i, j - 1>>), ndot |-> c.ndot]
          ELSE [n |-> Shr3(c.n), init |-> TRUE,
                A |-> [A1 |-> matrix_dot(A1gj8i(i, j - 1), c.A.A1, m1),
                       A2 |-> matrix_dot(A2gj8i(i, j - 1), c.A.A2, m2)],
                used |-> Append(c.used, <<i, j - 1>>), ndot |-> c.ndot + 1]

\* The digit loop of matrix_pow.
matrix_pow_loop(step) ==
  For(matrix_pow_digit, 0, NDIGIT - 1,
      [n |-> step, init |-> FALSE, A |-> Uninit, used |-> <<>>, ndot |-> 0])

\* matrix_pow reading the lowest octal digit of the step only
matrix_pow_low_digit(step) ==
  IF step[1] = 0
    THEN [A1 |-> A1gj8i(0, 0), A2 |-> A2gj8i(0, 0)]
    ELSE [A1 |-> A1gj8i(0, step[1] - 1), A2 |-> A2gj8i(0, step[1] - 1)]

\* matrix_pow with the table entries it reads and the products it makes
matrix_pow_run(step) ==
  Let(matrix_pow_loop(step), LAMBDA r :
      IF ~r.init
        THEN [A    |-> [A1 |-> A1gj8i(0, 0), A2 |-> A2gj8i(0, 0)],
              used |-> Append(r.used, <<0, 0>>), ndot |-> r.ndot]
        ELSE [A |-> r.A, used |-> r.used, ndot |-> r.ndot])

matrix_pow(step) == matrix_pow_run(step).A

mrg_state_forward_out(in, A1, A2) ==
    [s10 |-> (((A1[0] * in.s10) % m1) + ((A1[1] * in.s11) % m1) + ((A1[2] * in.s12) % m1)) % m1,
     s11 |-> (((A1[3] * in.s10) % m1) + ((A1[4] * in.s11) % m1) + ((A1[5] * in.s12) % m1)) % m1,
     s12 |-> (((A1[6] * in.s10) % m1) + ((A1[7] * in.s11) % m1) + ((A1[8] * in.s12) % m1)) % m1,
     s20 |-> (((A2[0] * in.s20) % m2) + ((A2[1] * in.s21) % m2) + ((A2[2] * in.s22) % m2)) % m2,
     s21 |-> (((A2[3] * in.s20) % m2) + ((A2[4] * in.s21) % m2) + ((A2[5] * in.s22) % m2)) % m2,
     s22 |-> (((A2[6] * in.s20) % m2) + ((A2[7] * in.s21) % m2) + ((A2[8] * in.s22) % m2)) % m2]

mrg_state_forward(in, A1, A2) ==
  IF in = Uninit THEN Uninit
  ELSE Let(in, LAMBDA s : mrg_state_forward_out(s, A1, A2))

MRG32K3A_MAX_STEP == [k \in 1..NDIGIT |-> IF k < NDIGIT THEN 7 ELSE 0]

\* Each of the functions below yields the stream states it leaves (st), the
\* error cell (err), the allocator events (log) and, where it calls jump or
\* jump_seq, that call (call).
\* mrg32k3a_jump_seq without its test of the error cell
mrg32k3a_jump_seq_unchecked(st, istat, nstream, step, err) ==
  Let([st EXCEPT ![0] = istat], LAMBDA s0 :
  Let(matrix_pow(step), LAMBDA A :
      [st  |-> For(LAMBDA c, i :
                     [c EXCEPT ![i] = mrg_state_forward(c[i - 1], A.A1, A.A2)],
                   1, nstream - 1, s0),
       err |-> err, log |-> <<Use("A")>>]))

mrg32k3a_jump_seq(st, istat, nstream, step, err) ==
  IF PRAND_IS_ERROR(err) THEN [st |-> st, err |-> err, log |-> <<>>]
  ELSE
    Let([st EXCEPT ![0] = istat], LAMBDA s0 :
        IF IsZero(step)
          THEN [st  |-> For(LAMBDA c, i : [c EXCEPT ![i] = c[i - 1]],
                            1, nstream - 1, s0),
                err |-> err, log |-> <<>>]
          ELSE Let(matrix_pow(step), LAMBDA A :
                   [st  |-> For(LAMBDA c, i :
                                  [c EXCEPT ![i] =
                                     mrg_state_forward(c[i - 1], A.A1, A.A2)],
                                1, nstream - 1, s0),
                    err |-> err, log |-> <<Use("A")>>]))

\* mrg32k3a_jump returning before it advances the state
mrg32k3a_jump_idle(stat, step, err) ==
  IF PRAND_IS_ERROR(err) THEN [st |-> stat, err |-> err, log |-> <<>>]
  ELSE IF U64Gt(step, MRG32K3A_MAX_STEP)
    THEN [st |-> stat, err |-> PRAND_ERR_STEP, log |-> <<>>]
  ELSE [st |-> stat, err |-> err, log |-> <<>>]

mrg32k3a_jump(stat, step, err) ==
  IF PRAND_IS_ERROR(err) THEN [st |-> stat, err |-> err, log |-> <<>>]
  ELSE IF IsZero(step) THEN [st |-> stat, err |-> err, log |-> <<>>]
  ELSE IF U64Gt(step, MRG32K3A_MAX_STEP)
    THEN [st |-> stat, err |-> PRAND_ERR_STEP, log |-> <<>>]
  ELSE Let(matrix_pow(step), LAMBDA A :
           [st  |-> mrg_state_forward(stat, A.A1, A.A2),
            err |-> err, log |-> <<Use("A")>>])

\* mrg32k3a_jump_all keeping the low 63 bits of a step above the maximum
mrg32k3a_jump_all_masked(st, nstream, step, err) ==
  IF PRAND_IS_ERROR(err) THEN [st |-> st, err |-> err, log |-> <<>>]
  ELSE
    Let([k \in 1..NDIGIT |-> IF k < NDIGIT THEN step[k] ELSE 0], LAMBDA low :
        IF IsZero(low) THEN [st |-> st, err |-> err, log |-> <<>>]
        ELSE Let(matrix_pow(low), LAMBDA A :
                 [st  |-> For(LAMBDA c, i :
                                [c EXCEPT ![i] =
                                   mrg_state_forward(c[i], A.A1, A.A2)],
                              0, nstream - 1, st),
                  err |-> err, log |-> <<Use("A")>>]))

mrg32k3a_jump_all(st, nstream, step, err) ==
  IF PRAND_IS_ERROR(err) THEN [st |-> st, err |-> err, log |-> <<>>]
  ELSE IF IsZero(step) THEN [st |-> st, err |-> err, log |-> <<>>]
  ELSE IF U64Gt(step, MRG32K3A_MAX_STEP)
    THEN [st |-> st, err |-> PRAND_ERR_STEP, log |-> <<>>]
  ELSE Let(matrix_pow(step), LAMBDA A :
           [st  |-> For(LAMBDA c, i :
                          [c EXCEPT ![i] = mrg_state_forward(c[i], A.A1, A.A2)],
                        0, nstream - 1, st),
            err |-> err, log |-> <<Use("A")>>])

\* mrg32k3a_reset without its jump
mrg32k3a_reset_seed_only(stat, seed, step, err) ==
  IF PRAND_IS_ERROR(err)
    THEN [st |-> stat, err |-> err, log |-> <<>>, call |-> NoCall]
  ELSE [st   |-> mrg32k3a_seed(IF seed = 0 THEN DEFAULT_SEED ELSE seed),
        err  |-> IF seed = 0 THEN PRAND_WARN_SEED ELSE err,
        log  |-> <<>>,
        call |-> NoCall]

mrg32k3a_reset(stat, seed, step, err) ==
  IF PRAND_IS_ERROR(err)
    THEN [st |-> stat, err |-> err, log |-> <<>>, call |-> NoCall]
  ELSE
    Let(IF seed = 0 THEN PRAND_WARN_SEED ELSE err, LAMBDA e1 :
    Let(mrg32k3a_seed(IF seed = 0 THEN DEFAULT_SEED ELSE seed), LAMBDA s1 :
    Let(mrg32k3a_jump(s1, step, e1), LAMBDA j :
        [st |-> j.st, err |-> j.err, log |-> j.log,
         call |-> Call("jump", s1, e1)])))

\* mrg32k3a_reset_all with the test of the step ahead of the seeding
mrg32k3a_reset_all_checked(st, nstream, seed, step, err) ==
  IF PRAND_IS_ERROR(err)
    THEN [st |-> st, err |-> err, log |-> <<>>, call |-> NoCall]
  ELSE IF U64Gt(step, MRG32K3A_MAX_STEP)
    THEN [st |-> st, err |-> PRAND_ERR_STEP, log |-> <<>>, call |-> NoCall]
  ELSE
    Let(IF seed = 0 THEN PRAND_WARN_SEED ELSE err, LAMBDA e1 :
    Let([st EXCEPT ![0] =
           mrg32k3a_seed(IF seed = 0 THEN DEFAULT_SEED ELSE seed)],
        LAMBDA s1 :
        IF IsZero(step)
          THEN [st  |-> For(LAMBDA c, i : [c EXCEPT ![i] = c[0]],
                            1, nstream - 1, s1),
                err |-> e1, log |-> <<>>, call |-> NoCall]
        ELSE IF nstream <= 1
          THEN Let(mrg32k3a_jump(s1[0], step, e1), LAMBDA j :
                   [st |-> [s1 EXCEPT ![0] = j.st], err |-> j.err,
                    log |-> j.log, call |-> Call("jump", s1, e1)])
          ELSE Let(mrg32k3a_jump_seq(s1, s1[0], nstream, step, e1), LAMBDA j :
                   [st |-> j.st, err |-> j.err, log |-> j.log,
                    call |-> Call("jump_seq", s1, e1)])))

mrg32k3a_reset_all(st, nstream, seed, step, err) ==
  IF PRAND_IS_ERROR(err)
    THEN [st |-> st, err |-> err, log |-> <<>>, call |-> NoCall]
  ELSE
    Let(IF seed = 0 THEN PRAND_WARN_SEED ELSE err, LAMBDA e1 :
    Let([st EXCEPT ![0] =
           mrg32k3a_seed(IF seed = 0 THEN DEFAULT_SEED ELSE seed)],
        LAMBDA s1 :
        IF IsZero(step)
          THEN [st  |-> For(LAMBDA c, i : [c EXCEPT ![i] = c[0]],
                            1, nstream - 1, s1),
                err |-> e1, log |-> <<>>, call |-> NoCall]
        ELSE IF U64Gt(step, MRG32K3A_MAX_STEP)
          THEN [st |-> s1, err |-> PRAND_ERR_STEP, log |-> <<>>,
                call |-> NoCall]
        ELSE IF nstream <= 1
          THEN Let(mrg32k3a_jump(s1[0], step, e1), LAMBDA j :
                   [st |-> [s1 EXCEPT ![0] = j.st], err |-> j.err,
                    log |-> j.log, call |-> Call("jump", s1, e1)])
          ELSE Let(mrg32k3a_jump_seq(s1, s1[0], nstream, step, e1), LAMBDA j :
                   [st |-> j.st, err |-> j.err, log |-> j.log,
                    call |-> Call("jump_seq", s1, e1)])))

\* rng->state_stream[i] = states + i with every pointer at states
state_stream_aliased(numstr) == [i \in 0..(numstr - 1) |-> 0]

\* rng->state_stream after the loop "rng->state_stream[i] = states + i" of
\* both inits: pointer i is the index of its state in the block states
state_stream_of(numstr) == [i \in 0..(numstr - 1) |-> i]

\* the handle that mrg32k3a_init returns (rng), with the fields it sets
mrg32k3a_init(seed, nstream, step, err, fail) ==
  IF U64Gt(step, MRG32K3A_MAX_STEP)
    THEN [rng |-> NULL, err |-> PRAND_ERR_STEP, log |-> <<>>, call |-> NoCall]
  ELSE IF fail = 1
    THEN [rng |-> NULL, err |-> PRAND_ERR_MEMORY,
          log |-> <<Malloc("rng", FALSE)>>, call |-> NoCall]
  ELSE IF fail = 2
    THEN [rng |-> NULL, err |-> PRAND_ERR_MEMORY,
          log |-> <<Malloc("rng", TRUE), Malloc("state_stream", FALSE),
                    Free("rng")>>,
          call |-> NoCall]
  ELSE IF fail = 3
    THEN [rng |-> NULL, err |-> PRAND_ERR_MEMORY,
          log |-> <<Malloc("rng", TRUE), Malloc("state_stream", TRUE),
                    Malloc("states", FALSE), Free("state_stream"),
                    Free("rng")>>,
          call |-> NoCall]
  ELSE
    LET numstr == IF nstream = 0 THEN 1 ELSE nstream
        log3   == <<Malloc("rng", TRUE), Malloc("state_stream", TRUE),
                    Malloc("states", TRUE)>>
    IN  Let(IF seed = 0 THEN PRAND_WARN_SEED ELSE err, LAMBDA e1 :
        Let([i \in 0..(numstr - 1) |->
               IF i = 0
                 THEN mrg32k3a_seed(IF seed = 0 THEN DEFAULT_SEED ELSE seed)
                 ELSE Uninit],
            LAMBDA s1 :
        Let(IF nstream = 0
              THEN Let(mrg32k3a_jump(s1[0], step, e1), LAMBDA j :
                       [st |-> [s1 EXCEPT ![0] = j.st], err |-> j.err,
                        log |-> j.log, call |-> Call("jump", s1, e1)])
              ELSE Let(mrg32k3a_jump_seq(s1, s1[0], nstream, step, e1),
                       LAMBDA j :
                       [st |-> j.st, err |-> j.err, log |-> j.log,
                        call |-> Call("jump_seq", s1, e1)]),
            LAMBDA j :
            [rng  |-> [type |-> PRAND_RNG_MRG32K3A, nstream |-> numstr,
                       min |-> 0, max |-> m1, st |-> j.st,
                       state_stream |-> state_stream_of(numstr),
                       state |-> state_stream_of(numstr)[0]],
             err  |-> j.err,
             log  |-> log3 \o j.log,
             call |-> j.call])))

(***************************************************************************)
(* MT19937 (src/src/mt19937.c).                                            *)
(***************************************************************************)
N == 3
M == 2
K == (N - 1) * WORD_SIZE + 1
MA == 184

UPPER_MASK(x) == And(Pow2(WORD_SIZE - 1), x)
LOWER_MASK(x) == And(Pow2(WORD_SIZE - 1) - 1, x)
MAGIC(y) == IF And(y, 1) # 0 THEN MA ELSE 0

MUL_NBIT(x) == x * WORD_SIZE
DIV_NBIT(x) == x \div WORD_SIZE
MOD_NBIT(x) == x % WORD_SIZE
\* COEF(x, i) for the array that starts at mem[x]
COEF(mem, x, i) == And(Shr(mem[x + DIV_NBIT(i)], MOD_NBIT(i)), 1)

\* one iteration of the loop of mt19937_seed
mt19937_seed_word(mt, i) ==
  [mt EXCEPT ![i] =
     ((1812433253 % WordMod) * Xor(mt[i - 1], Shr(mt[i - 1], 30)) + i) % WordMod]

mt19937_seed(seed) ==
  [mt  |-> For(mt19937_seed_word, 1, N - 1,
               [i \in 0..(N - 1) |-> IF i = 0 THEN seed % WordMod ELSE 0]),
   idx |-> N]

\* one iteration of "generate N words at one time": k < N - M in the first
\* loop, k < N - 1 in the second, k = N - 1 in the closing statement
gen_word(mt, k) ==
  Let(Or(UPPER_MASK(mt[k]), LOWER_MASK(mt[IF k < N - 1 THEN k + 1 ELSE 0])),
      LAMBDA y :
      [mt EXCEPT ![k] =
         Xor(Xor(mt[IF k < N - M THEN k + M
                    ELSE IF k < N - 1 THEN k + M - N
                    ELSE M - 1],
                 Shr(y, 1)),
             MAGIC(y))])

gen_words(mt) == For(gen_word, 0, N - 1, mt)

\* the state after the call, and the element returned
next_state(s) ==
  IF s = Uninit THEN [st |-> Uninit, out |-> Indet]
  ELSE
    Let(IF s.idx >= N THEN [mt |-> gen_words(s.mt), idx |-> 0] ELSE s,
        LAMBDA t : [st |-> [t EXCEPT !.idx = t.idx + 1], out |-> t.mt[t.idx]])

\* y ^= (y >> 11); y ^= (y << 7) & 0x9d2c5680; y ^= (y << 15) & 0xefc60000;
\* y ^= (y >> 18): the two masks keep their low WORD_SIZE bits, 0x80 and 0x00
tempering(y0) ==
  Let(Xor(y0, Shr(y0, 11)), LAMBDA y1 :
  Let(Xor(y1, And(Shl(y1, 7), 128)), LAMBDA y2 :
  Let(Xor(y2, And(Shl(y2, 15), 0)), LAMBDA y3 :
      Xor(y3, Shr(y3, 18)))))

mt19937_get(s) ==
  IF s = Uninit THEN [st |-> Uninit, out |-> Indet]
  ELSE
    Let(IF s.idx >= N THEN [mt |-> gen_words(s.mt), idx |-> 0] ELSE s,
        LAMBDA t : [st  |-> [t EXCEPT !.idx = t.idx + 1],
                    out |-> tempering(t.mt[t.idx])])

\* one iteration of the second loop of recover_state, for i = K + 1 - d
recover_word(c, mem, poly, i) ==
  Let(Xor(c.mt[i % N], c.mt[(i + M) % N]), LAMBDA y :
  Let(IF COEF(mem, poly, i - N + 1) # 0
        THEN Or(Shl(Xor(y, MA), 1), 1)
        ELSE Shl(y, 1),
      LAMBDA y1 :
      [mt |-> [c.mt EXCEPT ![(i + 1) % N] = Or(UPPER_MASK(c.y0), LOWER_MASK(y1))],
       y0 |-> y1]))

\* recover_state ending with s->idx = N
recover_state_idx_full(s, mem, poly) ==
  Let(For(LAMBDA mt, i : [mt EXCEPT ![i % N] = COEF(mem, poly, i)],
          K - N + 1, K, s.mt),
      LAMBDA mt0 :
      [mt  |-> For(LAMBDA c, d : recover_word(c, mem, poly, K + 1 - d),
                   0, K + 1 - (N - 1), [mt |-> mt0, y0 |-> 0]).mt,
       idx |-> N])

\* the state rebuilt from the polynomial at mem[poly]
recover_state(s, mem, poly) ==
  Let(For(LAMBDA mt, i : [mt EXCEPT ![i % N] = COEF(mem, poly, i)],
          K - N + 1, K, s.mt),
      LAMBDA mt0 :
      [mt  |-> For(LAMBDA c, d : recover_word(c, mem, poly, K + 1 - d),
                   0, K + 1 - (N - 1), [mt |-> mt0, y0 |-> 0]).mt,
       idx |-> 0])

(***************************************************************************)
(* Polynomials over GF(2) in arrays of words (src/src/mt19937_poly.c).     *)
(* The arrays live in one block of words, mem; r and tmp are offsets into  *)
(* it, and the const inputs a and b are passed as the words they hold.     *)
(***************************************************************************)
\* the n words at mem[off ..]
Rd(mem, off, n) == [k \in 0..(n - 1) |-> mem[off + k]]

\* memcpy(mem + dst, a, n words)
memcpy(mem, dst, a, n) ==
  [x \in DOMAIN mem |-> IF x >= dst /\ x < dst + n THEN a[x - dst] ELSE mem[x]]

\* memset(mem + dst, 0, n words)
memset0(mem, dst, n) ==
  [x \in DOMAIN mem |-> IF x >= dst /\ x < dst + n THEN 0 ELSE mem[x]]

\* one line of poly_mul1, for bit i of a
poly_mul1_bit(r, a, b, i) ==
  Let(IF And(Shr(a, i), 1) = 1 THEN b ELSE 0, LAMBDA t :
      [lo |-> Xor(r.lo, Shl(t, i)),
       hi |-> IF i = 0 THEN r.hi ELSE Xor(r.hi, Shr(t, WORD_SIZE - i))])

\* r[0] (lo) and r[1] (hi) of r = a * b
poly_mul1(a, b) ==
  Let(a, LAMBDA a_ : Let(b, LAMBDA b_ :
      For(LAMBDA r, i : poly_mul1_bit(r, a_, b_, i), 0, WORD_SIZE - 1,
          [lo |-> 0, hi |-> 0])))

kara_mul2(mem, r, a, b, tmp) ==
  Let(poly_mul1(a[0], b[0]), LAMBDA p0 :
  Let(poly_mul1(a[1], b[1]), LAMBDA p2 :
  Let(Xor(p0.hi, p2.lo), LAMBDA t0 :
  Let(poly_mul1(Xor(a[0], a[1]), Xor(b[0], b[1])), LAMBDA t1 :
      [mem EXCEPT ![r]       = p0.lo,
                  ![r + 3]   = p2.hi,
                  ![tmp]     = t0,
                  ![tmp + 1] = t1.lo,
                  ![tmp + 2] = t1.hi,
                  ![r + 1]   = Xor(Xor(p0.lo, t1.lo), t0),
                  ![r + 2]   = Xor(Xor(p2.hi, t1.hi), t0)]))))

kara_mul3(mem, r, a, b, tmp) ==
  Let(poly_mul1(a[0], b[0]), LAMBDA p0 :
  Let(poly_mul1(a[1], b[1]), LAMBDA p2 :
  Let(poly_mul1(a[2], b[2]), LAMBDA p4 :
  Let(poly_mul1(Xor(a[0], a[1]), Xor(b[0], b[1])), LAMBDA t4 :
  Let(poly_mul1(Xor(a[1], a[2]), Xor(b[1], b[2])), LAMBDA t6 :
  Let(poly_mul1(Xor(a[2], a[0]), Xor(b[2], b[0])), LAMBDA t8 :
  Let(Xor(p0.hi, p2.lo), LAMBDA t0 :
  Let(Xor(p0.lo, t0), LAMBDA t1 :
  Let(Xor(p2.hi, p4.lo), LAMBDA t2 :
  Let(Xor(t2, p4.hi), LAMBDA t3 :
      [mem EXCEPT ![r]       = p0.lo,
                  ![r + 5]   = p4.hi,
                  ![tmp + 4] = t4.lo,
                  ![tmp + 5] = t4.hi,
                  ![tmp + 6] = t6.lo,
                  ![tmp + 7] = t6.hi,
                  ![tmp + 8] = t8.lo,
                  ![tmp + 9] = t8.hi,
                  ![tmp]     = t0,
                  ![tmp + 1] = t1,
                  ![tmp + 2] = t2,
                  ![tmp + 3] = t3,
                  ![r + 1]   = Xor(t1, t4.lo),
                  ![r + 2]   = Xor(Xor(t1, t2), Xor(t4.hi, t8.lo)),
                  ![r + 3]   = Xor(Xor(t0, t3), Xor(t6.lo, t8.hi)),
                  ![r + 4]   = Xor(t3, t6.hi)]))))))))))

\* the n words of the array a from a[off] on
Sub(a, off, n) == [k \in 0..(n - 1) |-> a[off + k]]

kara_mul4(mem, r, a, b, tmp) ==
  Let(kara_mul2(mem, r, Sub(a, 0, 2), Sub(b, 0, 2), tmp + 6), LAMBDA ma :
  Let(kara_mul2(ma, r + 4, Sub(a, 2, 2), Sub(b, 2, 2), tmp + 6), LAMBDA mb :
  Let([mb EXCEPT ![tmp]     = Xor(mb[r + 2], mb[r + 4]),
                 ![tmp + 1] = Xor(mb[r + 3], mb[r + 5]),
                 ![tmp + 2] = Xor(a[0], a[2]),
                 ![tmp + 3] = Xor(a[1], a[3]),
                 ![tmp + 4] = Xor(b[0], b[2]),
                 ![tmp + 5] = Xor(b[1], b[3])],
      LAMBDA mc :
  Let(kara_mul2(mc, r + 2, Rd(mc, tmp + 2, 2), Rd(mc, tmp + 4, 2), tmp + 6),
      LAMBDA md :
      [md EXCEPT ![r + 2] = Xor(md[r + 2], Xor(md[tmp], md[r])),
                 ![r + 3] = Xor(md[r + 3], Xor(md[tmp + 1], md[r + 1])),
                 ![r + 4] = Xor(md[r + 4], Xor(md[tmp], md[r + 6])),
                 ![r + 5] = Xor(md[r + 5], Xor(md[tmp + 1], md[r + 7]))]))))

\* kara_mul5 with the scratch of its calls two words further on, at tmp + 11
kara_mul5_far(mem, r, a, b, tmp) ==
  Let(kara_mul3(mem, r, Sub(a, 0, 3), Sub(b, 0, 3), tmp + 11), LAMBDA ma :
  Let(kara_mul2(ma, r + 6, Sub(a, 3, 2), Sub(b, 3, 2), tmp + 11), LAMBDA mb :
  Let([mb EXCEPT ![tmp]     = Xor(mb[r + 3], mb[r + 6]),
                 ![tmp + 1] = Xor(mb[r + 4], mb[r + 7]),
                 ![tmp + 2] = Xor(mb[r + 5], mb[r + 8]),
                 ![tmp + 3] = Xor(a[0], a[3]),
                 ![tmp + 4] = Xor(a[1], a[4]),
                 ![tmp + 5] = a[2],
                 ![tmp + 6] = Xor(b[0], b[3]),
                 ![tmp + 7] = Xor(b[1], b[4]),
                 ![tmp + 8] = b[2]],
      LAMBDA mc :
  Let(kara_mul3(mc, r + 3, Rd(mc, tmp + 3, 3), Rd(mc, tmp + 6, 3), tmp + 11),
      LAMBDA md :
      [md EXCEPT ![r + 3] = Xor(md[r + 3], Xor(md[tmp], md[r])),
                 ![r + 4] = Xor(md[r + 4], Xor(md[tmp + 1], md[r + 1])),
                 ![r + 5] = Xor(md[r + 5], Xor(md[tmp + 2], md[r + 2])),
                 ![r + 6] = Xor(md[r + 6], Xor(md[tmp], md[r + 9])),
                 ![r + 7] = Xor(md[r + 7], md[tmp + 1]),
                 ![r + 8] = Xor(md[r + 8], md[tmp + 2])]))))

kara_mul5(mem, r, a, b, tmp) ==
  Let(kara_mul3(mem, r, Sub(a, 0, 3), Sub(b, 0, 3), tmp + 9), LAMBDA ma :
  Let(kara_mul2(ma, r + 6, Sub(a, 3, 2), Sub(b, 3, 2), tmp + 9), LAMBDA mb :
  Let([mb EXCEPT ![tmp]     = Xor(mb[r + 3], mb[r + 6]),
                 ![tmp + 1] = Xor(mb[r + 4], mb[r + 7]),
                 ![tmp + 2] = Xor(mb[r + 5], mb[r + 8]),
                 ![tmp + 3] = Xor(a[0], a[3]),
                 ![tmp + 4] = Xor(a[1], a[4]),
                 ![tmp + 5] = a[2],
                 ![tmp + 6] = Xor(b[0], b[3]),
                 ![tmp + 7] = Xor(b[1], b[4]),
                 ![tmp + 8] = b[2]],
      LAMBDA mc :
  Let(kara_mul3(mc, r + 3, Rd(mc, tmp + 3, 3), Rd(mc, tmp + 6, 3), tmp + 9),
      LAMBDA md :
      [md EXCEPT ![r + 3] = Xor(md[r + 3], Xor(md[tmp], md[r])),
                 ![r + 4] = Xor(md[r + 4], Xor(md[tmp + 1], md[r + 1])),
                 ![r + 5] = Xor(md[r + 5], Xor(md[tmp + 2], md[r + 2])),
                 ![r + 6] = Xor(md[r + 6], Xor(md[tmp], md[r + 9])),
                 ![r + 7] = Xor(md[r + 7], md[tmp + 1]),
                 ![r + 8] = Xor(md[r + 8], md[tmp + 2])]))))

kara_mul6(mem, r, a, b, tmp) ==
  Let(kara_mul3(mem, r, Sub(a, 0, 3), Sub(b, 0, 3), tmp + 9), LAMBDA ma :
  Let(kara_mul3(ma, r + 6, Sub(a, 3, 3), Sub(b, 3, 3), tmp + 9), LAMBDA mb :
  Let([mb EXCEPT ![tmp]     = Xor(mb[r + 3], mb[r + 6]),
                 ![tmp + 1] = Xor(mb[r + 4], mb[r + 7]),
                 ![tmp + 2] = Xor(mb[r + 5], mb[r + 8]),
                 ![tmp + 3] = Xor(a[0], a[3]),
                 ![tmp + 4] = Xor(a[1], a[4]),
                 ![tmp + 5] = Xor(a[2], a[5]),
                 ![tmp + 6] = Xor(b[0], b[3]),
                 ![tmp + 7] = Xor(b[1], b[4]),
                 ![tmp + 8] = Xor(b[2], b[5])],
      LAMBDA mc :
  Let(kara_mul3(mc, r + 3, Rd(mc, tmp + 3, 3), Rd(mc, tmp + 6, 3), tmp + 9),
      LAMBDA md :
      [md EXCEPT ![r + 3] = Xor(md[r + 3], Xor(md[tmp], md[r])),
                 ![r + 4] = Xor(md[r + 4], Xor(md[tmp + 1], md[r + 1])),
                 ![r + 5] = Xor(md[r + 5], Xor(md[tmp + 2], md[r + 2])),
                 ![r + 6] = Xor(md[r + 6], Xor(md[tmp], md[r + 9])),
                 ![r + 7] = Xor(md[r + 7], Xor(md[tmp + 1], md[r + 10])),
                 ![r + 8] = Xor(md[r + 8], Xor(md[tmp + 2], md[r + 11]))]))))

\* one pass of the loop of kara_mul that fills t0, t1 and t2; the pass for
\* i = n2 is the one under "if (n1 != n2)"
kara_mul_mid(c, r1, r2, a, b, n1, n2, t0, i) ==
  [c EXCEPT ![t0 + i]          = Xor(c[r1 + i], c[r2 + i]),
            ![t0 + n1 + i]     = IF i < n2 THEN Xor(a[i], a[n1 + i]) ELSE a[i],
            ![t0 + 2 * n1 + i] = IF i < n2 THEN Xor(b[i], b[n1 + i]) ELSE b[i]]

\* one pass of the combination of kara_mul; r3[i] enters in the loop only,
\* not in the two statements after it
kara_mul_comb(c, r, n1, n2, t0, i) ==
  Let([c EXCEPT ![r + n1 + i] =
         Xor(c[r + n1 + i], Xor(c[t0 + i], c[r + i]))],
      LAMBDA d :
      [d EXCEPT ![r + 2 * n1 + i] =
         IF i < 2 * n2 - n1
           THEN Xor(d[r + 2 * n1 + i], Xor(d[t0 + i], d[r + 3 * n1 + i]))
           ELSE Xor(d[r + 2 * n1 + i], d[t0 + i])])

RECURSIVE poly_mul(_, _, _, _, _, _)

\* kara_mul with the higher parts n1 words long, as a split in equal parts
\* would have them: n2 is taken for n1 in the loops
kara_mul_even(mem, r, a, b, n, tmp) ==
  LET n1 == (n + 1) \div 2
      n2 == n \div 2
      ts == tmp + 3 * n1
  IN  Let(poly_mul(mem, r, Sub(a, 0, n1), Sub(b, 0, n1), n1, ts), LAMBDA ma :
      Let(poly_mul(ma, r + 2 * n1, Sub(a, n1, n2), Sub(b, n1, n2), n2, ts),
          LAMBDA mb :
      Let(For(LAMBDA c, i :
                kara_mul_mid(c, r + n1, r + 2 * n1, a, b, n1, n2, tmp, i),
              0, n2 - 1, mb),
          LAMBDA mc :
      Let(poly_mul(mc, r + n1, Rd(mc, tmp + n1, n1), Rd(mc, tmp + 2 * n1, n1),
                   n1, ts),
          LAMBDA md :
          For(LAMBDA c, i : kara_mul_comb(c, r, n1, n2, tmp, i),
              0, 2 * n2 - n1 - 1, md)))))

kara_mul(mem, r, a, b, n, tmp) ==
  LET n1 == (n + 1) \div 2
      n2 == n \div 2
      ts == tmp + 3 * n1
  IN  Let(poly_mul(mem, r, Sub(a, 0, n1), Sub(b, 0, n1), n1, ts), LAMBDA ma :
      Let(poly_mul(ma, r + 2 * n1, Sub(a, n1, n2), Sub(b, n1, n2), n2, ts),
          LAMBDA mb :
      Let(For(LAMBDA c, i :
                kara_mul_mid(c, r + n1, r + 2 * n1, a, b, n1, n2, tmp, i),
              0, n1 - 1, mb),
          LAMBDA mc :
      Let(poly_mul(mc, r + n1, Rd(mc, tmp + n1, n1), Rd(mc, tmp + 2 * n1, n1),
                   n1, ts),
          LAMBDA md :
          For(LAMBDA c, i : kara_mul_comb(c, r, n1, n2, tmp, i),
              0, (2 * n2 - n1) + (IF n1 # n2 THEN 1 ELSE -1), md)))))

\* r = a * b for n words each
poly_mul(mem, r, a, b, n, tmp) ==
  IF n = 1 THEN Let(poly_mul1(a[0], b[0]), LAMBDA p :
                    [mem EXCEPT ![r] = p.lo, ![r + 1] = p.hi])
  ELSE IF n = 2 THEN kara_mul2(mem, r, a, b, tmp)
  ELSE IF n = 3 THEN kara_mul3(mem, r, a, b, tmp)
  ELSE IF n = 4 THEN kara_mul4(mem, r, a, b, tmp)
  ELSE IF n = 5 THEN kara_mul5(mem, r, a, b, tmp)
  ELSE IF n = 6 THEN kara_mul6(mem, r, a, b, tmp)
  ELSE IF n <= 0 THEN mem
  ELSE kara_mul(mem, r, a, b, n, tmp)

\* r = a * b, a of 2n words at mem[a], b of n words at mem[b]
poly_mul_ub(mem, r, a, b, n, tmp) ==
  Let(poly_mul(mem, r, Rd(mem, a, n), Rd(mem, b, n), n, tmp + n), LAMBDA mem1 :
  Let(memcpy(mem1, tmp, Rd(mem1, r + n, n), n), LAMBDA mem2 :
  Let(poly_mul(mem2, r + n, Rd(mem2, a + n, n), Rd(mem2, b, n), n, tmp + n),
      LAMBDA mem3 :
      [x \in DOMAIN mem3 |->
         IF x >= r + n /\ x < r + 2 * n
           THEN Xor(mem3[x], mem3[tmp + (x - (r + n))])
           ELSE mem3[x]])))

\* The minimal polynomial phi = t^17 + t^7 + t^6 + t^5 + t^4 + t^3 + 1 of
\* the N = 3, M = 2, MA = 0xb8 generator: the exponents below K, and the
\* block boundaries from 2K + 1 down in steps of K - 7, ending at K.
PHI_NUM_NBITS == 6
PHI_NUM_BLOCK == 3
MT19937_POLY_LEN == K
phi_bit_pos == [j \in 0..(PHI_NUM_NBITS - 1) |-> <<0, 3, 4, 5, 6, 7>>[j + 1]]
phi_block_pos == [i \in 0..(PHI_NUM_BLOCK - 1) |-> <<35, 25, 17>>[i + 1]]

\* r[0 ..] = the bits start .. end - 1 of the polynomial at mem[a0]
copy_bits(mem, r, a0, start, end) ==
  LET left  == MOD_NBIT(start)
      right == WORD_SIZE - left
      len   == end - start
      n     == DIV_NBIT(len)
      a     == a0 + DIV_NBIT(start)
      i     == MOD_NBIT(len)
  IN  Let(IF left # 0
            THEN For(LAMBDA c, k :
                       [c EXCEPT ![r + k] =
                          Or(Shr(c[a + k], left), Shl(c[a + k + 1], right))],
                     0, n - 1, mem)
            \* memcpy(r, a, MUL_NBIT(n)): that many bytes, of one-byte words
            ELSE memcpy(mem, r, Rd(mem, a, MUL_NBIT(n)), MUL_NBIT(n)),
          LAMBDA mem1 :
          IF i # 0
            THEN Let(Shr(mem1[a + n], left), LAMBDA w0 :
                 Let(IF left # 0 /\ MOD_NBIT(end) # 0
                       THEN Or(w0, Shl(mem1[a + n + 1], right))
                       ELSE w0,
                     LAMBDA w1 :
                     [mem1 EXCEPT ![r + n] = And(w1, Pow2(i) - 1)]))
            ELSE mem1)

\* r += a << shift, a being the n words the caller holds at tmp
shifted_add(mem, r, a, n, shift) ==
  IF shift = 0
    THEN [x \in DOMAIN mem |->
            IF x >= r /\ x < r + n THEN Xor(mem[x], a[x - r]) ELSE mem[x]]
    ELSE
      LET right == WORD_SIZE - shift
      IN  Let(For(LAMBDA c, i :
                    [mem  |-> [c.mem EXCEPT ![r + i] =
                                 Xor(c.mem[r + i],
                                     Or(Shl(a[i], shift), Shr(c.prev, right)))],
                     prev |-> a[i]],
                  0, n - 1, [mem |-> mem, prev |-> 0]),
              LAMBDA c :
                [c.mem EXCEPT ![r + n] = Xor(c.mem[r + n], Shr(c.prev, right))])

\* one iteration of the loop over j of poly_mod_phi
mod_phi_bit(mem, r, tmp, start, size, j) ==
  LET pos == phi_bit_pos[j] + start - MT19937_POLY_LEN
  IN  Let(Rd(mem, tmp, size), LAMBDA a :
          shifted_add(mem, r + DIV_NBIT(pos), a, size, MOD_NBIT(pos)))

\* one iteration of the loop over i of poly_mod_phi
mod_phi_block(mem, r, tmp, i) ==
  LET start == phi_block_pos[i + 1]
      end   == phi_block_pos[i]
      size  == DIV_NBIT(end - start + WORD_SIZE - 1)
  IN  Let(copy_bits(mem, tmp, r, start, end), LAMBDA mem1 :
      Let(For(LAMBDA c, j : mod_phi_bit(c, r, tmp, start, size, j),
              0, PHI_NUM_NBITS - 1, mem1),
          LAMBDA mem2 :
      Let(Rd(mem2, tmp, size), LAMBDA a :
          shifted_add(mem2, r + DIV_NBIT(start), a, size, MOD_NBIT(start)))))

\* r %= phi
poly_mod_phi(mem, r, tmp) ==
  For(LAMBDA c, i : mod_phi_block(c, r, tmp, i), 0, PHI_NUM_BLOCK - 2, mem)

(***************************************************************************)
(* The jump polynomials.  mt19937_jump.c holds the table mt19937_poly, its *)
(* entry [i][j] being t^((j + 1) * 8^i) mod phi in N words; the entries    *)
(* are computed here on integers of K bits.                                *)
(***************************************************************************)
PhiLow == For(LAMBDA c, j : c + Pow2(phi_bit_pos[j]), 0, PHI_NUM_NBITS - 1, 0)

\* p * t mod phi
PolyMulT(p) ==
  IF 2 * p >= Pow2(K) THEN Xor(2 * p - Pow2(K), PhiLow) ELSE 2 * p

\* p * q mod phi, by the bits of q from the top
PolyTimes(p, q) ==
  For(LAMBDA c, d :
        Let(PolyMulT(c), LAMBDA e :
            IF (q \div Pow2(K - 1 - d)) % 2 = 1 THEN Xor(e, p) ELSE e),
      0, K - 1, 0)

MT19937_MAX_STEP_B8 == 21

\* Row i + 1 starts from the 8th power of the first entry of row i.
PolyRow(p) ==
  For(LAMBDA row, j : Append(row, PolyTimes(p, row[j])), 1, 6, <<p>>)

PolyTable ==
  For(LAMBDA tab, i : Append(tab, PolyRow(PolyTimes(tab[i][1], tab[i][7]))),
      1, MT19937_MAX_STEP_B8 - 1, <<PolyRow(2)>>)

\* the N words of the polynomial p
PolyWords(p) == [k \in 0..(N - 1) |-> (p \div Pow2(k * WORD_SIZE)) % WordMod]

mt19937_poly_table ==
  [i \in 0..(MT19937_MAX_STEP_B8 - 1) |->
     [j \in 0..6 |-> PolyWords(PolyTable[i + 1][j + 1])]]

mt19937_poly(i, j) == mt19937_poly_table[i][j]

\* the digit loop of get_poly: poly at mem[0], pm at mem[N], tmp at mem[3N]
\* One pass of the loop "while (n)" of get_poly: mem is the block, with the
\* polynomial in its first N words once init is set.
get_poly_digit(c, i) ==
  IF IsZero(c.n) THEN c
  ELSE
    LET j == c.n[1]
    IN  IF j = 0 THEN [c EXCEPT !.n = Shr3(c.n)]
        ELSE IF ~c.init
          THEN [n |-> Shr3(c.n), init |-> TRUE,
                mem |-> memcpy(c.mem, 0, mt19937_poly(i, j - 1), N),
                used |-> Append(c.used, <<i, j - 1>>), nmul |-> c.nmul]
          ELSE Let(poly_mod_phi(
                     poly_mul(c.mem, N, Rd(c.mem, 0, N),
                              mt19937_poly(i, j - 1), N, 3 * N),
                     N, 3 * N),
                   LAMBDA mem2 :
                   [n |-> Shr3(c.n), init |-> TRUE,
                    mem |-> memcpy(mem2, 0, Rd(mem2, N, N), N),
                    used |-> Append(c.used, <<i, j - 1>>),
                    nmul |-> c.nmul + 1])

\* The digit loop of get_poly.
get_poly_loop(step, mem) ==
  For(get_poly_digit, 0, NDIGIT - 1,
      [n |-> step, init |-> FALSE, mem |-> mem, used |-> <<>>, nmul |-> 0])

\* get_poly reading the highest nonzero octal digit of the step only
get_poly_last_digit(step, calloc_ok) ==
  IF ~calloc_ok THEN NULL
  ELSE
    LET top == CHOOSE i \in 1..NDIGIT :
                 /\ step[i] # 0
                 /\ \A k \in (i + 1)..NDIGIT : step[k] = 0
    IN  memcpy([x \in 0..(N * 11 - 1) |-> 0], 0,
               IF IsZero(step) THEN mt19937_poly(0, 0)
               ELSE mt19937_poly(top - 1, step[top] - 1), N)

\* the block of 11N words with the polynomial of the step in its first N
\* words, or NULL when calloc fails
get_poly_run(step, calloc_ok) ==
  IF ~calloc_ok THEN [poly |-> NULL, used |-> <<>>, nmul |-> 0]
  ELSE
    Let(get_poly_loop(step, [x \in 0..(N * 11 - 1) |-> 0]),
        LAMBDA r :
        IF ~r.init
          THEN [poly |-> memcpy(r.mem, 0, mt19937_poly(0, 0), N),
                used |-> Append(r.used, <<0, 0>>), nmul |-> r.nmul]
          ELSE [poly |-> r.mem, used |-> r.used, nmul |-> r.nmul])

get_poly(step, calloc_ok) == get_poly_run(step, calloc_ok).poly

\* one iteration of the first loop of state_forward
forward_bit(c, pm, i) ==
  Let(next_state(c.st), LAMBDA g :
      [st  |-> g.st,
       mem |-> [c.mem EXCEPT ![pm + DIV_NBIT(i)] =
                  Or(c.mem[pm + DIV_NBIT(i)], Shl(And(g.out, 1), MOD_NBIT(i)))]])

\* one iteration of the second loop of state_forward
forward_coef(mem, pm, ph, i) ==
  [mem EXCEPT ![pm + DIV_NBIT(i)] =
     Or(mem[pm + DIV_NBIT(i)], Shl(COEF(mem, ph, 2 * K - 1 - i), MOD_NBIT(i)))]

\* the state out after state_forward(out, in, poly), and the block poly
mt_state_forward(in, poly) ==
  IF in = Uninit THEN [st |-> Uninit, mem |-> poly]
  ELSE
    LET pt  == 0
        pm  == N
        ph  == pm + 2 * N
        tmp == ph + N * 3
    IN  Let(For(LAMBDA c, d : forward_bit(c, pm, 2 * K - 1 - d), 0, 2 * K - 1,
                [st |-> in, mem |-> memset0(poly, pm, N * 2)]),
            LAMBDA f :
        Let(poly_mul_ub(f.mem, ph, pm, pt, N, tmp), LAMBDA mem1 :
        Let(For(LAMBDA c, i : forward_coef(c, pm, ph, i), 0, K,
                memset0(mem1, pm, N)),
            LAMBDA mem2 :
            [st |-> recover_state(f.st, mem2, pm), mem |-> mem2])))

MT19937_MAX_STEP == [k \in 1..NDIGIT |-> IF k < NDIGIT THEN 7 ELSE 0]

\* copy_state leaving the destination as it was
mt_copy_state_kept(dst, src) == dst

\* copy_state(dst, src) of mt19937.c: the content of dst afterwards
mt_copy_state(dst, src) == src

\* Each of the functions below yields the stream states it leaves (st), the
\* error cell (err), the allocator events (log) and, where it calls jump or
\* jump_seq, that call (call); calloc_ok tells whether the calloc of
\* get_poly, if it is reached, succeeds.
mt19937_jump_seq(st, istat, nstream, step, err, calloc_ok) ==
  IF PRAND_IS_ERROR(err) THEN [st |-> st, err |-> err, log |-> <<>>]
  ELSE
    Let([st EXCEPT ![0] = mt_copy_state(st[0], istat)], LAMBDA s0 :
        IF IsZero(step)
          THEN [st  |-> For(LAMBDA c, i :
                              [c EXCEPT ![i] = mt_copy_state(c[i], c[i - 1])],
                            1, nstream - 1, s0),
                err |-> err, log |-> <<>>]
          ELSE
            Let(get_poly(step, calloc_ok), LAMBDA poly :
                IF poly = NULL
                  THEN [st |-> s0, err |-> PRAND_ERR_MEMORY_JUMP,
                        log |-> <<Malloc("poly", FALSE)>>]
                  ELSE
                    Let(For(LAMBDA c, i :
                              Let(c.st[i - 1], LAMBDA in :
                              Let(mt_state_forward(in, c.mem), LAMBDA f :
                                  [st  |-> [c.st EXCEPT ![i] = f.st],
                                   mem |-> f.mem])),
                            1, nstream - 1, [st |-> s0, mem |-> poly]),
                        LAMBDA c :
                        [st |-> c.st, err |-> err,
                         log |-> <<Malloc("poly", TRUE)>>
                                 \o [k \in 1..(nstream - 1) |-> Use("poly")]
                                 \o <<Free("poly")>>])))

\* mt19937_jump returning without free(poly)
mt19937_jump_no_free(stat, step, err, calloc_ok) ==
  IF PRAND_IS_ERROR(err) THEN [st |-> stat, err |-> err, log |-> <<>>]
  ELSE IF IsZero(step) THEN [st |-> stat, err |-> err, log |-> <<>>]
  ELSE IF U64Gt(step, MT19937_MAX_STEP)
    THEN [st |-> stat, err |-> PRAND_ERR_STEP, log |-> <<>>]
  ELSE
    Let(get_poly(step, calloc_ok), LAMBDA poly :
        IF poly = NULL
          THEN [st |-> stat, err |-> PRAND_ERR_MEMORY_JUMP,
                log |-> <<Malloc("poly", FALSE)>>]
          ELSE [st  |-> mt_state_forward(stat, poly).st,
                err |-> err,
                log |-> <<Malloc("poly", TRUE), Use("poly")>>])

mt19937_jump(stat, step, err, calloc_ok) ==
  IF PRAND_IS_ERROR(err) THEN [st |-> stat, err |-> err, log |-> <<>>]
  ELSE IF IsZero(step) THEN [st |-> stat, err |-> err, log |-> <<>>]
  ELSE IF U64Gt(step, MT19937_MAX_STEP)
    THEN [st |-> stat, err |-> PRAND_ERR_STEP, log |-> <<>>]
  ELSE
    Let(get_poly(step, calloc_ok), LAMBDA poly :
        IF poly = NULL
          THEN [st |-> stat, err |-> PRAND_ERR_MEMORY_JUMP,
                log |-> <<Malloc("poly", FALSE)>>]
          ELSE [st  |-> mt_state_forward(stat, poly).st,
                err |-> err,
                log |-> <<Malloc("poly", TRUE), Use("poly"), Free("poly")>>])

mt19937_jump_all(st, nstream, step, err, calloc_ok) ==
  IF PRAND_IS_ERROR(err) THEN [st |-> st, err |-> err, log |-> <<>>]
  ELSE IF IsZero(step) THEN [st |-> st, err |-> err, log |-> <<>>]
  ELSE IF U64Gt(step, MT19937_MAX_STEP)
    THEN [st |-> st, err |-> PRAND_ERR_STEP, log |-> <<>>]
  ELSE
    Let(get_poly(step, calloc_ok), LAMBDA poly :
        IF poly = NULL
          THEN [st |-> st, err |-> PRAND_ERR_MEMORY_JUMP,
                log |-> <<Malloc("poly", FALSE)>>]
          ELSE
            Let(For(LAMBDA c, i :
                      Let(c.st[i], LAMBDA in :
                      Let(mt_state_forward(in, c.mem), LAMBDA f :
                          [st  |-> [c.st EXCEPT ![i] = f.st],
                           mem |-> f.mem])),
                    0, nstream - 1, [st |-> st, mem |-> poly]),
                LAMBDA c :
                [st |-> c.st, err |-> err,
                 log |-> <<Malloc("poly", TRUE)>>
                         \o [k \in 1..nstream |-> Use("poly")]
                         \o <<Free("poly")>>]))

\* mt19937_reset seeding with the seed as given, zero included
mt19937_reset_raw_seed(stat, seed, step, err, calloc_ok) ==
  IF PRAND_IS_ERROR(err)
    THEN [st |-> stat, err |-> err, log |-> <<>>, call |-> NoCall]
  ELSE
    Let(IF seed = 0 THEN PRAND_WARN_SEED ELSE err, LAMBDA e1 :
    Let(mt19937_seed(seed), LAMBDA s1 :
    Let(mt19937_jump(s1, step, e1, calloc_ok), LAMBDA j :
        [st |-> j.st, err |-> j.err, log |-> j.log,
         call |-> Call("jump", s1, e1)])))

mt19937_reset(stat, seed, step, err, calloc_ok) ==
  IF PRAND_IS_ERROR(err)
    THEN [st |-> stat, err |-> err, log |-> <<>>, call |-> NoCall]
  ELSE
    Let(IF seed = 0 THEN PRAND_WARN_SEED ELSE err, LAMBDA e1 :
    Let(mt19937_seed(IF seed = 0 THEN DEFAULT_SEED ELSE seed), LAMBDA s1 :
    Let(mt19937_jump(s1, step, e1, calloc_ok), LAMBDA j :
        [st |-> j.st, err |-> j.err, log |-> j.log,
         call |-> Call("jump", s1, e1)])))

\* mt19937_reset_all copying the seeded state to every stream on step 0, as
\* mrg32k3a_reset_all does
mt19937_reset_all_fanout(st, nstream, seed, step, err, calloc_ok) ==
  IF PRAND_IS_ERROR(err)
    THEN [st |-> st, err |-> err, log |-> <<>>, call |-> NoCall]
  ELSE
    Let(IF seed = 0 THEN PRAND_WARN_SEED ELSE err, LAMBDA e1 :
    Let([st EXCEPT ![0] =
           mt19937_seed(IF seed = 0 THEN DEFAULT_SEED ELSE seed)],
        LAMBDA s1 :
        IF IsZero(step)
          THEN [st  |-> For(LAMBDA c, i : [c EXCEPT ![i] = c[0]],
                            1, nstream - 1, s1),
                err |-> e1, log |-> <<>>, call |-> NoCall]
        ELSE IF U64Gt(step, MT19937_MAX_STEP)
          THEN [st |-> s1, err |-> PRAND_ERR_STEP, log |-> <<>>,
                call |-> NoCall]
        ELSE IF nstream <= 1
          THEN Let(mt19937_jump(s1[0], step, e1, calloc_ok), LAMBDA j :
                   [st |-> [s1 EXCEPT ![0] = j.st], err |-> j.err,
                    log |-> j.log, call |-> Call("jump", s1, e1)])
          ELSE Let(mt19937_jump_seq(s1, s1[0], nstream, step, e1, calloc_ok),
                   LAMBDA j :
                   [st |-> j.st, err |-> j.err, log |-> j.log,
                    call |-> Call("jump_seq", s1, e1)])))

mt19937_reset_all(st, nstream, seed, step, err, calloc_ok) ==
  IF PRAND_IS_ERROR(err)
    THEN [st |-> st, err |-> err, log |-> <<>>, call |-> NoCall]
  ELSE
    Let(IF seed = 0 THEN PRAND_WARN_SEED ELSE err, LAMBDA e1 :
    Let([st EXCEPT ![0] =
           mt19937_seed(IF seed = 0 THEN DEFAULT_SEED ELSE seed)],
        LAMBDA s1 :
        IF IsZero(step)
          THEN [st |-> s1, err |-> e1, log |-> <<>>, call |-> NoCall]
        ELSE IF U64Gt(step, MT19937_MAX_STEP)
          THEN [st |-> s1, err |-> PRAND_ERR_STEP, log |-> <<>>,
                call |-> NoCall]
        ELSE IF nstream <= 1
          THEN Let(mt19937_jump(s1[0], step, e1, calloc_ok), LAMBDA j :
                   [st |-> [s1 EXCEPT ![0] = j.st], err |-> j.err,
                    log |-> j.log, call |-> Call("jump", s1, e1)])
          ELSE Let(mt19937_jump_seq(s1, s1[0], nstream, step, e1, calloc_ok),
                   LAMBDA j :
                   [st |-> j.st, err |-> j.err, log |-> j.log,
                    call |-> Call("jump_seq", s1, e1)])))

\* mt19937_init past its test of the step: the allocations, the seeding and
\* the jump; fail is the number of the allocation that fails (4 is the
\* calloc of get_poly)
mt19937_init_alloc(seed, nstream, step, err, fail) ==
  IF fail = 1
    THEN [rng |-> NULL, err |-> PRAND_ERR_MEMORY,
          log |-> <<Malloc("rng", FALSE)>>, call |-> NoCall]
  ELSE IF fail = 2
    THEN [rng |-> NULL, err |-> PRAND_ERR_MEMORY,
          log |-> <<Malloc("rng", TRUE), Malloc("state_stream", FALSE),
                    Free("rng")>>,
          call |-> NoCall]
  ELSE IF fail = 3
    THEN [rng |-> NULL, err |-> PRAND_ERR_MEMORY,
          log |-> <<Malloc("rng", TRUE), Malloc("state_stream", TRUE),
                    Malloc("states", FALSE), Free("state_stream"),
                    Free("rng")>>,
          call |-> NoCall]
  ELSE
    LET numstr == IF nstream = 0 THEN 1 ELSE nstream
        log3   == <<Malloc("rng", TRUE), Malloc("state_stream", TRUE),
                    Malloc("states", TRUE)>>
    IN  Let(IF seed = 0 THEN PRAND_WARN_SEED ELSE err, LAMBDA e1 :
        Let([i \in 0..(numstr - 1) |->
               IF i = 0
                 THEN mt19937_seed(IF seed = 0 THEN DEFAULT_SEED ELSE seed)
                 ELSE Uninit],
            LAMBDA s1 :
        Let(IF nstream <= 1
              THEN Let(mt19937_jump(s1[0], step, e1, fail # 4), LAMBDA j :
                       [st |-> [s1 EXCEPT ![0] = j.st], err |-> j.err,
                        log |-> j.log, call |-> Call("jump", s1, e1)])
              ELSE Let(mt19937_jump_seq(s1, s1[0], nstream, step, e1,
                                        fail # 4),
                       LAMBDA j :
                       [st |-> j.st, err |-> j.err, log |-> j.log,
                        call |-> Call("jump_seq", s1, e1)]),
            LAMBDA j :
            [rng  |-> [type |-> PRAND_RNG_MT19937, nstream |-> numstr,
                       min |-> 0, max |-> WordMod - 1, st |-> j.st,
                       state_stream |-> state_stream_of(numstr),
                       state |-> state_stream_of(numstr)[0]],
             err  |-> j.err,
             log  |-> log3 \o j.log,
             call |-> j.call])))

\* mt19937_init testing the step after the handle is allocated
mt19937_init_late_check(seed, nstream, step, err, fail) ==
  IF fail \in 1..3 \/ ~U64Gt(step, MT19937_MAX_STEP)
    THEN mt19937_init_alloc(seed, nstream, step, err, fail)
    ELSE [rng |-> NULL, err |-> PRAND_ERR_STEP,
          log |-> <<Malloc("rng", TRUE), Free("rng")>>, call |-> NoCall]

\* the handle that mt19937_init returns (rng), with the fields it sets
mt19937_init(seed, nstream, step, err, fail) ==
  IF U64Gt(step, MT19937_MAX_STEP)
    THEN [rng |-> NULL, err |-> PRAND_ERR_STEP, log |-> <<>>, call |-> NoCall]
    ELSE mt19937_init_alloc(seed, nstream, step, err, fail)

(***************************************************************************)
(* The facade (src/src/prand.c).                                           *)
(***************************************************************************)
\* prand_init allocating the handle before it looks at the type
prand_init_alloc_first(type, seed, nstream, step, fail) ==
  IF type = PRAND_RNG_MRG32K3A THEN mrg32k3a_init(seed, nstream, step, 0, fail)
  ELSE IF type = PRAND_RNG_MT19937 THEN mt19937_init(seed, nstream, step, 0, fail)
  ELSE [rng |-> NULL, err |-> PRAND_ERR_UNDEF_RNG,
        log |-> <<Malloc("rng", TRUE), Free("rng")>>, call |-> NoCall]

prand_init(type, seed, nstream, step, fail) ==
  IF type = PRAND_RNG_MRG32K3A THEN mrg32k3a_init(seed, nstream, step, 0, fail)
  ELSE IF type = PRAND_RNG_MT19937 THEN mt19937_init(seed, nstream, step, 0, fail)
  ELSE [rng |-> NULL, err |-> PRAND_ERR_UNDEF_RNG, log |-> <<>>,
        call |-> NoCall]

\* the allocator events of prand_destroy
prand_destroy_log == <<Free("states"), Free("state_stream"), Free("rng")>>

(***************************************************************************)
(* The program: a caller that makes one init call, up to MaxOps calls on   *)
(* the handle it got, and destroys the handle; its error cell; the         *)
(* allocator.                                                              *)
(***************************************************************************)
VARIABLES
  rng,    \* the handle the caller holds, or NULL
  err,    \* the caller's error cell
  heap,   \* the blocks allocated and not freed
  last,   \* the last call: its arguments, what it found and what it did
  nops    \* the calls made on the handle since it was returned

vars == <<rng, err, heap, last, nops>>

Kinds == {PRAND_RNG_MRG32K3A, PRAND_RNG_MT19937}
\* the two enumerators and a value that is neither
Types == Kinds \cup {2}
Seeds == 0..MaxSeed
\* small steps, a step of two octal digits, and a step above the maximum
Steps == {U64(n) : n \in 0..MaxStep} \cup {U64(8 + MaxStep), Bit63(0)}
Streams == 0..MaxStreams
\* which allocation of a call fails, 0 for none
Fails == 0..4

\* the heap after the allocator events of a call
ApplyLog(h, log) ==
  For(LAMBDA c, k :
        IF log[k].ev = "free" THEN c \ {log[k].blk}
        ELSE IF log[k].ev = "malloc" /\ log[k].ok THEN c \cup {log[k].blk}
        ELSE c,
      1, Len(log), h)

Record(op, kind, i, seed, nstream, step, call, log, out) ==
  [op |-> op, kind |-> kind, i |-> i, seed |-> seed, nstream |-> nstream,
   step |-> step, pre |-> rng, preErr |-> err, call |-> call, log |-> log,
   out |-> out]

\* The caller has no handle yet; its error cell is clean, or it still
\* holds the error of an earlier use.
Init ==
  /\ rng = NULL
  /\ err \in {0, PRAND_ERR_STEP}
  /\ heap = {}
  /\ last = [op |-> "none", kind |-> 0, i |-> 0, seed |-> 0, nstream |-> 0,
             step |-> U64(0), pre |-> NULL, preErr |-> 0, call |-> NoCall,
             log |-> <<>>, out |-> 0]
  /\ nops = 0

\* rng = prand_init(type, seed, nstream, step, &err)
PrandInit(type, seed, nstream, step, fail) ==
  /\ rng = NULL
  /\ last.op = "none"
  /\ \E r \in {prand_init(type, seed, nstream, step, fail)} :
       /\ rng' = r.rng
       /\ err' = r.err
       /\ heap' = ApplyLog(heap, r.log)
       /\ last' = Record("prand_init", type, 0, seed, nstream, step, r.call,
                         r.log, 0)
  /\ nops' = 0

\* rng = mrg32k3a_init(...) or mt19937_init(...), called by name: the error
\* cell keeps what the caller left in it
GenInit(kind, seed, nstream, step, fail) ==
  /\ rng = NULL
  /\ last.op = "none"
  /\ \E r \in {IF kind = PRAND_RNG_MRG32K3A
                  THEN mrg32k3a_init(seed, nstream, step, err, fail)
                  ELSE mt19937_init(seed, nstream, step, err, fail)} :
       /\ rng' = r.rng
       /\ err' = r.err
       /\ heap' = ApplyLog(heap, r.log)
       /\ last' = Record("init", kind, 0, seed, nstream, step, r.call,
                         r.log, 0)
  /\ nops' = 0

\* rng->get(rng->state_stream[i])
Get(i) ==
  /\ rng # NULL
  /\ nops < MaxOps
  /\ i < rng.nstream
  /\ \E r \in {IF rng.type = PRAND_RNG_MRG32K3A
                  THEN mrg32k3a_get(rng.st[rng.state_stream[i]])
                  ELSE mt19937_get(rng.st[rng.state_stream[i]])} :
       /\ rng' = [rng EXCEPT !.st[rng.state_stream[i]] = r.st]
       /\ last' = Record("get", rng.type, i, 0, rng.nstream, U64(0), NoCall,
                         <<>>, r.out)
  /\ nops' = nops + 1
  /\ UNCHANGED <<err, heap>>

\* rng->jump(rng->state_stream[i], step, &err)
Jump(i, step, fail) ==
  /\ rng # NULL
  /\ nops < MaxOps
  /\ i < rng.nstream
  /\ \E r \in {IF rng.type = PRAND_RNG_MRG32K3A
                  THEN mrg32k3a_jump(rng.st[rng.state_stream[i]], step, err)
                  ELSE mt19937_jump(rng.st[rng.state_stream[i]], step, err, fail # 1)} :
       /\ rng' = [rng EXCEPT !.st[rng.state_stream[i]] = r.st]
       /\ err' = r.err
       /\ heap' = ApplyLog(heap, r.log)
       /\ last' = Record("jump", rng.type, i, 0, rng.nstream, step, NoCall,
                         r.log, 0)
  /\ nops' = nops + 1

\* rng->jump_all(rng, step, &err)
JumpAll(step, fail) ==
  /\ rng # NULL
  /\ nops < MaxOps
  /\ \E r \in {IF rng.type = PRAND_RNG_MRG32K3A
                  THEN mrg32k3a_jump_all(rng.st, rng.nstream, step, err)
                  ELSE mt19937_jump_all(rng.st, rng.nstream, step, err,
                                        fail # 1)} :
       /\ rng' = [rng EXCEPT !.st = r.st]
       /\ err' = r.err
       /\ heap' = ApplyLog(heap, r.log)
       /\ last' = Record("jump_all", rng.type, 0, 0, rng.nstream, step, NoCall,
                         r.log, 0)
  /\ nops' = nops + 1

\* rng->reset(rng->state_stream[i], seed, step, &err)
Reset(i, seed, step, fail) ==
  /\ rng # NULL
  /\ nops < MaxOps
  /\ i < rng.nstream
  /\ \E r \in {IF rng.type = PRAND_RNG_MRG32K3A
                  THEN mrg32k3a_reset(rng.st[rng.state_stream[i]], seed, step, err)
                  ELSE mt19937_reset(rng.st[rng.state_stream[i]], seed, step, err, fail # 1)} :
       /\ rng' = [rng EXCEPT !.st[rng.state_stream[i]] = r.st]
       /\ err' = r.err
       /\ heap' = ApplyLog(heap, r.log)
       /\ last' = Record("reset", rng.type, i, seed, rng.nstream, step, r.call,
                         r.log, 0)
  /\ nops' = nops + 1

\* rng->reset_all(rng, seed, step, &err)
ResetAll(seed, step, fail) ==
  /\ rng # NULL
  /\ nops < MaxOps
  /\ \E r \in {IF rng.type = PRAND_RNG_MRG32K3A
                  THEN mrg32k3a_reset_all(rng.st, rng.nstream, seed, step, err)
                  ELSE mt19937_reset_all(rng.st, rng.nstream, seed, step, err,
                                         fail # 1)} :
       /\ rng' = [rng EXCEPT !.st = r.st]
       /\ err' = r.err
       /\ heap' = ApplyLog(heap, r.log)
       /\ last' = Record("reset_all", rng.type, 0, seed, rng.nstream, step,
                         r.call, r.log, 0)
  /\ nops' = nops + 1

\* prand_destroy(rng)
Destroy ==
  /\ rng # NULL
  /\ rng' = NULL
  /\ heap' = ApplyLog(heap, prand_destroy_log)
  /\ last' = [op |-> "destroy", kind |-> 0, i |-> 0, seed |-> 0,
              nstream |-> 0, step |-> U64(0), pre |-> NULL, preErr |-> err,
              call |-> NoCall, log |-> prand_destroy_log, out |-> 0]
  /\ nops' = 0
  /\ UNCHANGED err

Next ==
  \/ \E type \in Types, seed \in Seeds, nstream \in Streams, step \in Steps,
        fail \in Fails : PrandInit(type, seed, nstream, step, fail)
  \/ \E kind \in Kinds, seed \in Seeds, nstream \in Streams, step \in Steps,
        fail \in Fails : GenInit(kind, seed, nstream, step, fail)
  \/ \E i \in 0..(MaxStreams - 1) : Get(i)
  \/ \E i \in 0..(MaxStreams - 1), step \in Steps, fail \in 0..1 :
        Jump(i, step, fail)
  \/ \E step \in Steps, fail \in 0..1 : JumpAll(step, fail)
  \/ \E i \in 0..(MaxStreams - 1), seed \in Seeds, step \in Steps,
        fail \in 0..1 : Reset(i, seed, step, fail)
  \/ \E seed \in Seeds, step \in Steps, fail \in 0..1 :
        ResetAll(seed, step, fail)
  \/ Destroy

Spec == Init /\ [][Next]_vars

(***************************************************************************)
(* What the properties below speak of.                                     *)
(***************************************************************************)
\* the number of draws compared when two streams are compared by their draws
NDraws == 5

IsInitCall == last.op \in {"prand_init", "init"}
\* the step of the last call as a number, -1 for a step above the maximum
StepOf == IF U64Gt(last.step, MT19937_MAX_STEP) THEN -1 ELSE Val(last.step)
SeedOf == IF last.seed = 0 THEN DEFAULT_SEED ELSE last.seed

GenGet(kind, s) ==
  IF kind = PRAND_RNG_MRG32K3A THEN mrg32k3a_get(s) ELSE mt19937_get(s)

\* the state after n draws from s
Advance(kind, s, n) == For(LAMBDA c, d : GenGet(kind, c).st, 1, n, s)

FirstDraw(kind, s) == GenGet(kind, s).out

\* the next n draws from s
Draws(kind, s, n) ==
  For(LAMBDA c, d :
        Let(GenGet(kind, c.st), LAMBDA g :
            [st |-> g.st, out |-> Append(c.out, g.out)]),
      1, n, [st |-> s, out |-> <<>>]).out

\* stream 0 of the handle that init(kind, seed, nstream, step) returns
InitState(kind, seed, nstream, step) ==
  prand_init(kind, seed, nstream, step, 0).rng.st[0]

(***************************************************************************)
(* C1.  For MT19937, after init(MT19937, s, N, k) with N >= 1 and k <=     *)
(* MAX_STEP, the first draw of every stream i < N equals draw number k * i *)
(* (from 0) of the single stream of init(MT19937, s, 1, 0).                *)
(***************************************************************************)
C1_JumpEquivalenceMT ==
  (/\ IsInitCall
   /\ last.kind = PRAND_RNG_MT19937
   /\ last.nstream >= 1
   /\ rng # NULL
   /\ ~PRAND_IS_ERROR(err))
  => \A i \in 0..(rng.nstream - 1) :
       FirstDraw(PRAND_RNG_MT19937, rng.st[i])
         = FirstDraw(PRAND_RNG_MT19937,
                     Advance(PRAND_RNG_MT19937,
                             InitState(PRAND_RNG_MT19937, last.seed, 1, U64(0)),
                             StepOf * i))

\* the same for N >= 2 only
C1_JumpEquivalenceMTFrom2 ==
  (/\ IsInitCall
   /\ last.kind = PRAND_RNG_MT19937
   /\ last.nstream >= 2
   /\ rng # NULL
   /\ ~PRAND_IS_ERROR(err))
  => \A i \in 0..(rng.nstream - 1) :
       FirstDraw(PRAND_RNG_MT19937, rng.st[i])
         = FirstDraw(PRAND_RNG_MT19937,
                     Advance(PRAND_RNG_MT19937,
                             InitState(PRAND_RNG_MT19937, last.seed, 1, U64(0)),
                             StepOf * i))

(***************************************************************************)
(* C2.  For MRG32k3a, after init(MRG32K3A, seed, N, k) with N >= 1 and     *)
(* k <= MAX_STEP, the state of every stream i < N is the freshly seeded    *)
(* state after i * k draws.                                                *)
(***************************************************************************)
C2_MrgStreamOffsets ==
  (/\ IsInitCall
   /\ last.kind = PRAND_RNG_MRG32K3A
   /\ last.nstream >= 1
   /\ rng # NULL
   /\ ~PRAND_IS_ERROR(err))
  => \A i \in 0..(rng.nstream - 1) :
       rng.st[i] = Advance(PRAND_RNG_MRG32K3A, mrg32k3a_seed(SeedOf),
                           i * StepOf)

\* an MRG32k3a handle of MaxStreams streams, a step of two octal digits apart
C2_Witness ==
  /\ last.op = "prand_init"
  /\ last.kind = PRAND_RNG_MRG32K3A
  /\ rng # NULL
  /\ err = 0
  /\ rng.nstream = MaxStreams
  /\ StepOf = 8 + MaxStep
  /\ rng.st[MaxStreams - 1] # rng.st[0]

\* the stream state after jump(state, step) on a clean error cell, every
\* allocation succeeding
JumpState(kind, s, step) ==
  IF kind = PRAND_RNG_MRG32K3A THEN mrg32k3a_jump(s, step, 0).st
  ELSE mt19937_jump(s, step, 0, TRUE).st

NoFailedAlloc(log) ==
  \A k \in 1..Len(log) : log[k].ev = "malloc" => log[k].ok

StepInRange(kind, step) ==
  ~U64Gt(step, IF kind = PRAND_RNG_MRG32K3A THEN MRG32K3A_MAX_STEP
               ELSE MT19937_MAX_STEP)

\* a reset on a clean error cell, with a step in range, no allocation failing
ResetDone ==
  /\ last.op = "reset"
  /\ ~PRAND_IS_ERROR(last.preErr)
  /\ StepInRange(last.kind, last.step)
  /\ NoFailedAlloc(last.log)

(***************************************************************************)
(* C3.  As stated: for both generators, reset(state, seed, step) leaves    *)
(* the stream in the state that stream 0 has after                         *)
(* init(kind, seed, 1, step).                                              *)
(***************************************************************************)
C3_ResetEqualsInitOfOneStream ==
  ResetDone
  => rng.st[last.i] = InitState(last.kind, last.seed, 1, last.step)

(***************************************************************************)
(* C3, amended.  For both generators, reset(state, seed, step) leaves the  *)
(* stream in the state that the single stream has after                    *)
(* init(kind, seed, 0, step), the seeded state advanced by step.           *)
(***************************************************************************)
C3_ResetEqualsInitOfNoStream ==
  ResetDone
  => rng.st[last.i] = InitState(last.kind, last.seed, 0, last.step)

\* an MRG32k3a stream reset with a step of two octal digits
C3_Witness ==
  /\ ResetDone
  /\ last.kind = PRAND_RNG_MRG32K3A
  /\ StepOf = 8 + MaxStep
  /\ last.seed = MaxSeed
  /\ rng.st[last.i] # mrg32k3a_seed(MaxSeed)

(***************************************************************************)
(* C4.  For both generators and any stream state, jump(a) followed by      *)
(* jump(b) leaves the stream where one jump(a + b) leaves it, a + b <=     *)
(* MAX_STEP: the draws that follow are the same.                           *)
(***************************************************************************)
C4_JumpAdditive ==
  (/\ last.op = "jump"
   /\ ~PRAND_IS_ERROR(last.preErr)
   /\ StepInRange(last.kind, last.step)
   /\ NoFailedAlloc(last.log))
  => /\ rng.st[last.i]
          = JumpState(last.kind, last.pre.st[last.i], last.step)
     \* from the state the call found, and from that state d draws later
     /\ \A d \in 0..N, b \in {1, MaxStep, 8 + MaxStep} :
          \E s \in {Advance(last.kind, last.pre.st[last.i], d)} :
            \E two \in {JumpState(last.kind,
                                   JumpState(last.kind, s, last.step), U64(b))},
               one \in {JumpState(last.kind, s, U64(StepOf + b))} :
              Draws(last.kind, two, NDraws) = Draws(last.kind, one, NDraws)

\* an MT19937 stream that made a jump of two octal digits from a state
\* that init had advanced already
C4_Witness ==
  /\ last.op = "jump"
  /\ last.kind = PRAND_RNG_MT19937
  /\ ~PRAND_IS_ERROR(last.preErr)
  /\ NoFailedAlloc(last.log)
  /\ StepOf = 8 + MaxStep
  /\ last.i = MaxStreams - 1
  /\ last.pre.st[last.i] # Uninit
  /\ last.pre.st[last.i] # last.pre.st[0]
  /\ rng.st[last.i] # last.pre.st[last.i]

(***************************************************************************)
(* C5.  When the error cell holds a negative value at entry, jump,         *)
(* jump_all, reset, reset_all and jump_seq return at once: no stream state *)
(* changes, the error cell keeps its value, nothing is allocated, whatever *)
(* the seed and the step.                                                  *)
(***************************************************************************)
C5_StickyError ==
  /\ (/\ last.op \in {"jump", "jump_all", "reset", "reset_all"}
      /\ PRAND_IS_ERROR(last.preErr))
     => /\ rng.st = last.pre.st
        /\ err = last.preErr
        /\ last.log = <<>>
        /\ heap = {"rng", "state_stream", "states"}
  /\ (/\ last.call.fn \in {"jump", "jump_seq"}
      /\ IsInitCall
      /\ PRAND_IS_ERROR(last.call.err))
     => /\ rng # NULL
        /\ rng.st = last.call.st
        /\ err = last.call.err
        /\ heap = {"rng", "state_stream", "states"}

\* jump_seq entered by an init whose caller left an error in the cell
C5_Witness ==
  /\ last.op = "init"
  /\ last.call.fn = "jump_seq"
  /\ PRAND_IS_ERROR(last.call.err)
  /\ last.nstream = MaxStreams
  /\ StepOf = 8 + MaxStep
  /\ rng.st[1] = Uninit

(***************************************************************************)
(* C6.  init with a step above MAX_STEP = 2^63 - 1 returns NULL with the   *)
(* error cell at -3, and has allocated nothing.                            *)
(***************************************************************************)
C6_OversizeStepInit ==
  (/\ IsInitCall
   /\ last.kind \in Kinds
   /\ ~StepInRange(last.kind, last.step))
  => /\ rng = NULL
     /\ err = PRAND_ERR_STEP
     /\ last.log = <<>>
     /\ heap = {}

\* MT19937 asked for MaxStreams streams 2^63 apart, no allocation set to fail
C6_Witness ==
  /\ last.op = "prand_init"
  /\ last.kind = PRAND_RNG_MT19937
  /\ last.step = Bit63(0)
  /\ last.nstream = MaxStreams
  /\ last.seed = 0
  /\ rng = NULL
  /\ err = PRAND_ERR_STEP

\* the stream states that the last call leaves when it is given seed 1
SeedOneStates ==
  IF last.op = "prand_init"
    THEN prand_init(last.kind, 1, last.nstream, last.step, 0).rng.st
  ELSE IF last.op = "init"
    THEN (IF last.kind = PRAND_RNG_MRG32K3A
            THEN mrg32k3a_init(1, last.nstream, last.step, last.preErr, 0)
            ELSE mt19937_init(1, last.nstream, last.step, last.preErr, 0)).rng.st
  ELSE IF last.op = "reset"
    THEN [last.pre.st EXCEPT ![last.i] =
            (IF last.kind = PRAND_RNG_MRG32K3A
               THEN mrg32k3a_reset(last.pre.st[last.i], 1, last.step,
                                   last.preErr)
               ELSE mt19937_reset(last.pre.st[last.i], 1, last.step,
                                  last.preErr, TRUE)).st]
  ELSE (IF last.kind = PRAND_RNG_MRG32K3A
          THEN mrg32k3a_reset_all(last.pre.st, last.pre.nstream, 1, last.step,
                                  last.preErr)
          ELSE mt19937_reset_all(last.pre.st, last.pre.nstream, 1, last.step,
                                 last.preErr, TRUE)).st

\* init, reset or reset_all with seed 0 on a clean error cell, the step in
\* range, no allocation failing
ZeroSeedCall ==
  /\ \/ last.op = "prand_init" /\ last.kind \in Kinds
     \/ last.op \in {"init", "reset", "reset_all"}
        /\ ~PRAND_IS_ERROR(last.preErr)
  /\ last.seed = 0
  /\ StepInRange(last.kind, last.step)
  /\ NoFailedAlloc(last.log)

(***************************************************************************)
(* C7.  init, reset and reset_all with seed 0 succeed, leave +1 in the     *)
(* error cell, and leave the stream states that the same call with seed 1  *)
(* leaves.                                                                 *)
(***************************************************************************)
C7_ZeroSeedIsSeedOne ==
  ZeroSeedCall
  => /\ rng # NULL
     /\ err = PRAND_WARN_SEED
     /\ ~PRAND_IS_ERROR(err)
     /\ rng.st = SeedOneStates

\* MT19937 reset_all with seed 0 and a step of two octal digits
C7_Witness ==
  /\ ZeroSeedCall
  /\ last.op = "reset_all"
  /\ last.kind = PRAND_RNG_MT19937
  /\ rng.nstream = MaxStreams
  /\ StepOf = 8 + MaxStep
  /\ last.pre.st # rng.st

SomeAlloc(log) ==
  \E k \in 1..Len(log) : log[k].ev = "malloc" /\ log[k].ok

(***************************************************************************)
(* C8.  As stated: of the failures of init, the invalid kind (-4) is the   *)
(* only one met before anything is allocated.                              *)
(***************************************************************************)
C8_OnlyInvalidKindBeforeAlloc ==
  (last.op = "prand_init" /\ PRAND_IS_ERROR(err))
  => (~SomeAlloc(last.log) <=> err = PRAND_ERR_UNDEF_RNG)

(***************************************************************************)
(* C8, amended.  The failures of init met before anything is allocated are *)
(* the invalid kind (-4), the step above MAX_STEP (-3) and the failure of  *)
(* the first allocation, that of the handle (-1); every other failure      *)
(* comes after an allocation that succeeded.                               *)
(***************************************************************************)
C8_FailuresBeforeAlloc ==
  (last.op = "prand_init" /\ PRAND_IS_ERROR(err))
  => /\ ~SomeAlloc(last.log)
        <=> \/ err = PRAND_ERR_UNDEF_RNG
            \/ err = PRAND_ERR_STEP
            \/ err = PRAND_ERR_MEMORY /\ last.log = <<Malloc("rng", FALSE)>>
     /\ err = PRAND_ERR_UNDEF_RNG <=> last.kind \notin Kinds
     /\ err = PRAND_ERR_UNDEF_RNG => rng = NULL /\ last.log = <<>>

\* an init of a kind that is no generator
C8_Witness ==
  /\ last.op = "prand_init"
  /\ last.kind \notin Kinds
  /\ err = PRAND_ERR_UNDEF_RNG
  /\ rng = NULL
  /\ heap = {}
  /\ last.seed = MaxSeed
  /\ last.nstream = MaxStreams

\* the blocks of the successful allocations of log, in their order
Allocated(log) ==
  For(LAMBDA c, k :
        IF log[k].ev = "malloc" /\ log[k].ok THEN Append(c, log[k].blk) ELSE c,
      1, Len(log), <<>>)

\* the blocks released in log, in their order
Released(log) ==
  For(LAMBDA c, k : IF log[k].ev = "free" THEN Append(c, log[k].blk) ELSE c,
      1, Len(log), <<>>)

Reverse(q) == [k \in 1..Len(q) |-> q[Len(q) + 1 - k]]

(***************************************************************************)
(* C9.  When an allocation fails in init (-1, or -2 for the working memory *)
(* of the MT19937 jump), everything init allocated before is released, in  *)
(* reverse order, before init returns.                                     *)
(***************************************************************************)
C9_InitFailureReleasesAll ==
  (IsInitCall /\ ~NoFailedAlloc(last.log))
  => /\ err \in {PRAND_ERR_MEMORY, PRAND_ERR_MEMORY_JUMP}
     /\ Released(last.log) = Reverse(Allocated(last.log))
     /\ heap = {}

\* the same for the failures that give -1 only
C9_HandleFailureReleasesAll ==
  (IsInitCall /\ ~NoFailedAlloc(last.log) /\ err = PRAND_ERR_MEMORY)
  => /\ Released(last.log) = Reverse(Allocated(last.log))
     /\ heap = {}
     /\ rng = NULL

FailedPoly(log) ==
  \E k \in 1..Len(log) :
    log[k].ev = "malloc" /\ log[k].blk = "poly" /\ ~log[k].ok

(***************************************************************************)
(* C10.  A jump that fails changes nothing: when MT19937 cannot allocate   *)
(* its working memory, jump, jump_all and jump_seq leave -2 in the error   *)
(* cell and every stream state as it was; with a step above MAX_STEP, jump *)
(* and jump_all of either generator leave -3 and every state as it was.    *)
(***************************************************************************)
C10_FailedJumpChangesNothing ==
  /\ (/\ last.op \in {"jump", "jump_all"}
      /\ last.kind = PRAND_RNG_MT19937
      /\ FailedPoly(last.log))
     => err = PRAND_ERR_MEMORY_JUMP /\ rng.st = last.pre.st
  /\ (/\ last.call.fn \in {"jump", "jump_seq"}
      /\ last.kind = PRAND_RNG_MT19937
      /\ FailedPoly(last.log))
     => /\ err = PRAND_ERR_MEMORY_JUMP
        /\ rng.st = (IF last.op = "reset"
                       THEN [last.pre.st EXCEPT ![last.i] = last.call.st]
                       ELSE last.call.st)
  /\ (/\ last.op \in {"jump", "jump_all"}
      /\ ~PRAND_IS_ERROR(last.preErr)
      /\ ~StepInRange(last.kind, last.step))
     => err = PRAND_ERR_STEP /\ rng.st = last.pre.st /\ last.log = <<>>

\* jump_seq of MT19937, entered by reset_all, that cannot allocate
C10_Witness ==
  /\ last.op = "reset_all"
  /\ last.call.fn = "jump_seq"
  /\ last.kind = PRAND_RNG_MT19937
  /\ FailedPoly(last.log)
  /\ err = PRAND_ERR_MEMORY_JUMP
  /\ last.pre.st[MaxStreams - 1] # Uninit
  /\ rng.st[MaxStreams - 1] = last.pre.st[MaxStreams - 1]

\* the life of the block blk through the events of log: whether it is
\* allocated at the end (live), and whether every use and every free found
\* it allocated and every allocation found it free (ok)
BlockLife(log, blk) ==
  For(LAMBDA c, k :
        IF log[k].blk # blk THEN c
        ELSE IF log[k].ev = "malloc"
          THEN [live |-> c.live \/ log[k].ok, ok |-> c.ok /\ ~c.live]
        ELSE IF log[k].ev = "use"
          THEN [c EXCEPT !.ok = c.ok /\ c.live]
        ELSE [live |-> FALSE, ok |-> c.ok /\ c.live],
      1, Len(log), [live |-> FALSE, ok |-> TRUE])

(***************************************************************************)
(* C11.  Every buffer that get_poly hands to mt19937_jump, jump_all or     *)
(* jump_seq (called on the handle or inside reset, reset_all, init) is     *)
(* freed exactly once before the operation returns, on every path, and is  *)
(* not used after it is freed.                                             *)
(***************************************************************************)
C11_ScratchReleased ==
  /\ "poly" \notin heap
  /\ BlockLife(last.log, "poly") = [live |-> FALSE, ok |-> TRUE]

\* reset_all of MaxStreams MT19937 streams: jump_seq used the buffer and
\* freed it
C11_Witness ==
  /\ last.op = "reset_all"
  /\ last.kind = PRAND_RNG_MT19937
  /\ last.call.fn = "jump_seq"
  /\ last.log = <<Malloc("poly", TRUE)>>
                 \o [k \in 1..(MaxStreams - 1) |-> Use("poly")]
                 \o <<Free("poly")>>
  /\ "poly" \notin heap

(***************************************************************************)
(* Threads.  A handle of MaxStreams streams; thread t drives stream t      *)
(* through rng->state_stream[t] with an error cell of its own, and makes   *)
(* up to MaxSeq calls of get, jump and reset.  A call reads the state its  *)
(* pointer names when it begins and writes it when it ends; the calls of   *)
(* different threads interleave.  Here err and nops hold one value per     *)
(* thread, and last holds for each thread whether it is inside a call      *)
(* (busy), what that call will leave (pend), what the thread has drawn     *)
(* (outs), and the same calls run on a stream by itself (alone).           *)
(***************************************************************************)
MaxSeq == 2

Threads == 0..(MaxStreams - 1)

StreamCalls ==
  {[op |-> "get", seed |-> 0, step |-> U64(0), fail |-> 0],
   [op |-> "jump", seed |-> 0, step |-> U64(8 + MaxStep), fail |-> 0],
   [op |-> "jump", seed |-> 0, step |-> U64(8 + MaxStep), fail |-> 1],
   [op |-> "jump", seed |-> 0, step |-> Bit63(0), fail |-> 0],
   [op |-> "reset", seed |-> 0, step |-> U64(MaxStep), fail |-> 0]}

\* the call c of rng->get, rng->jump or rng->reset on the state s with the
\* error cell e: the state and the cell it leaves, and what it returns
StreamCall(kind, s, e, c) ==
  IF c.op = "get"
    THEN Let(GenGet(kind, s), LAMBDA g :
             [st |-> g.st, err |-> e, out |-> <<g.out>>])
  ELSE IF c.op = "jump"
    THEN Let(IF kind = PRAND_RNG_MRG32K3A
               THEN mrg32k3a_jump(s, c.step, e)
               ELSE mt19937_jump(s, c.step, e, c.fail # 1),
             LAMBDA j : [st |-> j.st, err |-> j.err, out |-> <<>>])
  ELSE Let(IF kind = PRAND_RNG_MRG32K3A
             THEN mrg32k3a_reset(s, c.seed, c.step, e)
             ELSE mt19937_reset(s, c.seed, c.step, e, c.fail # 1),
           LAMBDA j : [st |-> j.st, err |-> j.err, out |-> <<>>])

StreamInit ==
  \E kind \in Kinds, seed \in 1..MaxSeed :
    \E r \in {prand_init(kind, seed, MaxStreams, U64(MaxStep), 0)} :
      /\ rng = r.rng
      /\ err = [t \in Threads |-> r.err]
      /\ heap = ApplyLog({}, r.log)
      /\ nops = [t \in Threads |-> 0]
      /\ last = [pc    |-> [t \in Threads |-> "idle"],
                 pend  |-> [t \in Threads |-> NoCall],
                 outs  |-> [t \in Threads |-> <<>>],
                 alone |-> [t \in Threads |->
                              [st |-> r.rng.st[t], err |-> r.err,
                               outs |-> <<>>, calls |-> <<>>]]]

\* thread t enters the call c on its stream
StreamBegin(t, c) ==
  /\ last.pc[t] = "idle"
  /\ nops[t] < MaxSeq
  /\ \E r \in {StreamCall(rng.type, rng.st[rng.state_stream[t]], err[t], c)} :
       last' = [last EXCEPT !.pc[t] = "busy",
                            !.pend[t] = [call |-> c, st |-> r.st,
                                         err |-> r.err, out |-> r.out]]
  /\ UNCHANGED <<rng, err, heap, nops>>

\* the call of thread t returns
StreamEnd(t) ==
  /\ last.pc[t] = "busy"
  /\ rng' = [rng EXCEPT !.st[rng.state_stream[t]] = last.pend[t].st]
  /\ err' = [err EXCEPT ![t] = last.pend[t].err]
  /\ nops' = [nops EXCEPT ![t] = nops[t] + 1]
  /\ \E a \in {StreamCall(rng.type, last.alone[t].st, last.alone[t].err,
                           last.pend[t].call)} :
       last' = [last EXCEPT
                  !.pc[t] = "idle",
                  !.pend[t] = NoCall,
                  !.outs[t] = last.outs[t] \o last.pend[t].out,
                  !.alone[t] = [st    |-> a.st,
                                err   |-> a.err,
                                outs  |-> last.alone[t].outs \o a.out,
                                calls |-> Append(last.alone[t].calls,
                                                 last.pend[t].call)]]
  /\ UNCHANGED heap

StreamNext ==
  \/ \E t \in Threads, c \in StreamCalls : StreamBegin(t, c)
  \/ \E t \in Threads : StreamEnd(t)

StreamSpec == StreamInit /\ [][StreamNext]_vars

\* the state of the stream of thread t
StreamOf(t) == rng.st[rng.state_stream[t]]

InRange(kind, s) ==
  IF kind = PRAND_RNG_MRG32K3A
    THEN /\ \A f \in {"s10", "s11", "s12"} : s[f] \in 0..(m1 - 1)
         /\ \A f \in {"s20", "s21", "s22"} : s[f] \in 0..(m2 - 1)
    ELSE /\ s.idx \in 0..N
         /\ \A k \in 0..(N - 1) : s.mt[k] \in 0..(WordMod - 1)

(***************************************************************************)
(* C12.  After any sequence of draws, jumps and resets on a stream that    *)
(* init produced, the MRG32k3a state has 0 <= s10, s11, s12 < m1 and       *)
(* 0 <= s20, s21, s22 < m2, and the MT19937 index has 0 <= idx <= N.       *)
(***************************************************************************)
C12_StateRanges ==
  \A t \in Threads :
    /\ InRange(rng.type, StreamOf(t))
    /\ InRange(rng.type, last.alone[t].st)
    /\ last.pc[t] = "busy" => InRange(rng.type, last.pend[t].st)

\* an MRG32k3a stream after a jump and a draw, in the state that follows a
\* draw of m1
C12_Witness ==
  /\ rng.type = PRAND_RNG_MRG32K3A
  /\ nops[0] = MaxSeq
  /\ last.pc[0] = "idle"
  /\ \E k \in 1..MaxSeq : last.alone[0].calls[k].op = "jump"
  /\ last.alone[0].calls[MaxSeq].op = "get"
  /\ last.outs[0] # <<>>

(***************************************************************************)
(* Draws of MRG32k3a from the corners of its state space: a handle of one  *)
(* stream whose six components are each 0, 1, 2 or the modulus less one    *)
(* and up to MaxDraw calls of rng->get on it.  last holds the state a draw *)
(* found and the value it returned.                                        *)
(***************************************************************************)
MaxDraw == 2

EdgeOf(m) == {0, 1, 2, m - 1}

EdgeStates ==
  {[s10 |-> x[1], s11 |-> x[2], s12 |-> x[3],
    s20 |-> y[1], s21 |-> y[2], s22 |-> y[3]] :
     x \in EdgeOf(m1) \X EdgeOf(m1) \X EdgeOf(m1),
     y \in EdgeOf(m2) \X EdgeOf(m2) \X EdgeOf(m2)}

DrawInit ==
  \E s \in EdgeStates :
    \E r \in {mrg32k3a_init(DEFAULT_SEED, 1, U64(0), 0, 0)} :
      /\ rng = [r.rng EXCEPT !.st[0] = s]
      /\ err = r.err
      /\ heap = ApplyLog({}, r.log)
      /\ nops = 0
      /\ last = [op |-> "init", pre |-> s, out |-> Indet]

Draw ==
  /\ nops < MaxDraw
  /\ \E g \in {mrg32k3a_get(rng.st[rng.state])} :
       /\ rng' = [rng EXCEPT !.st[rng.state] = g.st]
       /\ last' = [op |-> "get", pre |-> rng.st[rng.state], out |-> g.out]
  /\ nops' = nops + 1
  /\ UNCHANGED <<err, heap>>

DrawNext == Draw

DrawSpec == DrawInit /\ [][DrawNext]_vars

(***************************************************************************)
(* C13.  Every value that get of MRG32k3a returns from a state whose       *)
(* components are within range lies in 1..m1: it is never 0 and never      *)
(* above rng->max, which is m1.                                            *)
(***************************************************************************)
C13_MrgOutputRange ==
  /\ rng.max = m1
  /\ last.op = "get" /\ InRange(PRAND_RNG_MRG32K3A, last.pre)
       => /\ last.out \in 1..m1
          /\ last.out >= 1
          /\ last.out <= rng.max

\* a draw whose two components are equal returns the maximum
C13_Witness ==
  /\ last.op = "get"
  /\ InRange(PRAND_RNG_MRG32K3A, last.pre)
  /\ rng.st[rng.state].s12 = rng.st[rng.state].s22
  /\ last.out = rng.max

\* a draw returns the minimum, 1
C13_WitnessLow ==
  /\ last.op = "get"
  /\ last.out = 1

(***************************************************************************)
(* MT19937 at its full width (src/src/mt19937.c with N = 624, M = 397 and  *)
(* uint32_t words).  A word is the tuple of its four bytes, low byte       *)
(* first, so that no intermediate value leaves the range of the checker's  *)
(* integers; the operators ^, &, | act on the bytes, and shifts, the       *)
(* product and the sum carry between them.                                 *)
(***************************************************************************)
N32 == 624
M32 == 397

\* the word of value n, n < 2^31
U32(n) ==
  <<n % 256, (n \div 256) % 256, (n \div 65536) % 256, (n \div 16777216) % 256>>

Xor32(a, b) == [i \in 1..4 |-> Xor(a[i], b[i])]
And32(a, b) == [i \in 1..4 |-> And(a[i], b[i])]
Or32(a, b) == [i \in 1..4 |-> Or(a[i], b[i])]

\* a >> k and a << k, 0 <= k < 32
Shr32(a, k) ==
  LET q == k \div 8
      r == k % 8
      B(i) == IF i > 4 THEN 0 ELSE a[i]
  IN  [i \in 1..4 |->
         (B(i + q) \div Pow2(r)) + (B(i + q + 1) % Pow2(r)) * Pow2(8 - r)]

Shl32(a, k) ==
  LET q == k \div 8
      r == k % 8
      B(i) == IF i < 1 THEN 0 ELSE a[i]
  IN  [i \in 1..4 |->
         ((B(i - q) * Pow2(r)) % 256) + (B(i - q - 1) \div Pow2(8 - r))]

\* a * b truncated to 32 bits
Mul32(a, b) ==
  LET c1 == a[1] * b[1]
      c2 == a[1] * b[2] + a[2] * b[1] + (c1 \div 256)
      c3 == a[1] * b[3] + a[2] * b[2] + a[3] * b[1] + (c2 \div 256)
      c4 == a[1] * b[4] + a[2] * b[3] + a[3] * b[2] + a[4] * b[1]
            + (c3 \div 256)
  IN  <<c1 % 256, c2 % 256, c3 % 256, c4 % 256>>

\* a + n truncated to 32 bits, 0 <= n < 2^16
Add32(a, n) ==
  LET c1 == a[1] + (n % 256)
      c2 == a[2] + (n \div 256) + (c1 \div 256)
      c3 == a[3] + (c2 \div 256)
      c4 == a[4] + (c3 \div 256)
  IN  <<c1 % 256, c2 % 256, c3 % 256, c4 % 256>>

\* the word written with the decimal digits ds, and with the eight
\* hexadecimal digits ds, high digit first
RECURSIVE Dec32(_)
Dec32(ds) ==
  IF ds = <<>> THEN U32(0)
  ELSE Add32(Mul32(Dec32(SubSeq(ds, 1, Len(ds) - 1)), U32(10)), ds[Len(ds)])

Hex32(ds) ==
  <<16 * ds[7] + ds[8], 16 * ds[5] + ds[6], 16 * ds[3] + ds[4],
    16 * ds[1] + ds[2]>>

\* 0x9908b0df
MA32 == Hex32(<<9, 9, 0, 8, 11, 0, 13, 15>>)
UPPER_MASK32(x) == And32(Hex32(<<8, 0, 0, 0, 0, 0, 0, 0>>), x)
LOWER_MASK32(x) == And32(Hex32(<<7, 15, 15, 15, 15, 15, 15, 15>>), x)
MAGIC32(y) == IF And32(y, U32(1)) # U32(0) THEN MA32 ELSE U32(0)

\* mt[i] = 1812433253UL * (mt[i-1] ^ (mt[i-1] >> 30)) + i
mt19937_seed_word32(mt, i) ==
  [mt EXCEPT ![i] =
     Add32(Mul32(Dec32(<<1, 8, 1, 2, 4, 3, 3, 2, 5, 3>>),
                 Xor32(mt[i - 1], Shr32(mt[i - 1], 30))),
           i)]

\* stat->mt[0] = seed keeps the low 32 bits of the seed (here seed < 2^31)
mt19937_seed32(seed) ==
  [mt  |-> For(mt19937_seed_word32, 1, N32 - 1,
               [i \in 0..(N32 - 1) |-> IF i = 0 THEN U32(seed) ELSE U32(0)]),
   idx |-> N32]

gen_word32(mt, k) ==
  Let(Or32(UPPER_MASK32(mt[k]),
           LOWER_MASK32(mt[IF k < N32 - 1 THEN k + 1 ELSE 0])),
      LAMBDA y :
      [mt EXCEPT ![k] =
         Xor32(Xor32(mt[IF k < N32 - M32 THEN k + M32
                        ELSE IF k < N32 - 1 THEN k + M32 - N32
                        ELSE M32 - 1],
                     Shr32(y, 1)),
               MAGIC32(y))])

gen_words32(mt) == For(gen_word32, 0, N32 - 1, mt)

\* tempering32 without the mask of the second step
tempering32_unmasked(y0) ==
  Let(Xor32(y0, Shr32(y0, 11)), LAMBDA y1 :
  Let(Xor32(y1, Shl32(y1, 7)), LAMBDA y2 :
  Let(Xor32(y2, And32(Shl32(y2, 15),
                      Hex32(<<14, 15, 12, 6, 0, 0, 0, 0>>))), LAMBDA y3 :
      Xor32(y3, Shr32(y3, 18)))))

\* y ^= (y >> 11); y ^= (y << 7) & 0x9d2c5680; y ^= (y << 15) & 0xefc60000;
\* y ^= (y >> 18)
tempering32(y0) ==
  Let(Xor32(y0, Shr32(y0, 11)), LAMBDA y1 :
  Let(Xor32(y1, And32(Shl32(y1, 7),
                      Hex32(<<9, 13, 2, 12, 5, 6, 8, 0>>))), LAMBDA y2 :
  Let(Xor32(y2, And32(Shl32(y2, 15),
                      Hex32(<<14, 15, 12, 6, 0, 0, 0, 0>>))), LAMBDA y3 :
      Xor32(y3, Shr32(y3, 18)))))

mt19937_get32(s) ==
  Let(IF s.idx >= N32 THEN [mt |-> gen_words32(s.mt), idx |-> 0] ELSE s,
      LAMBDA t : [st  |-> [t EXCEPT !.idx = t.idx + 1],
                  out |-> tempering32(t.mt[t.idx])])

\* mt19937_init(seed, 1, 0, err) with every allocation succeeding: the seed
\* 0 is replaced, stream 0 is seeded, and mt19937_jump returns at once on
\* the step 0
mt19937_init32(seed, e) ==
  [rng |-> [type |-> PRAND_RNG_MT19937, nstream |-> 1, min |-> U32(0),
            max |-> Hex32(<<15, 15, 15, 15, 15, 15, 15, 15>>),
            st |-> [i \in {0} |->
                      mt19937_seed32(IF seed = 0 THEN DEFAULT_SEED ELSE seed)],
            state_stream |-> state_stream_of(1),
            state |-> state_stream_of(1)[0]],
   err |-> IF seed = 0 THEN PRAND_WARN_SEED ELSE e,
   log |-> <<Malloc("rng", TRUE), Malloc("state_stream", TRUE),
             Malloc("states", TRUE)>>]

(***************************************************************************)
(* The full-width generator in use: init(MT19937, seed, 1, 0) for the      *)
(* seeds 0..MaxRefSeed and 5489, then up to NRef calls of rng->get.  last  *)
(* holds the seed and the values drawn so far.                             *)
(***************************************************************************)
MaxRefSeed == 9
NRef == 10

RefInit ==
  \E seed \in (0..MaxRefSeed) \cup {5489} :
    \E r \in {mt19937_init32(seed, 0)} :
      /\ rng = r.rng
      /\ err = r.err
      /\ heap = ApplyLog({}, r.log)
      /\ nops = 0
      /\ last = [seed |-> seed, outs |-> <<>>]

RefGet ==
  /\ nops < NRef
  /\ \E g \in {mt19937_get32(rng.st[rng.state])} :
       /\ rng' = [rng EXCEPT !.st[rng.state] = g.st]
       /\ last' = [last EXCEPT !.outs = Append(last.outs, g.out)]
  /\ nops' = nops + 1
  /\ UNCHANGED <<err, heap>>

RefNext == RefGet

RefSpec == RefInit /\ [][RefNext]_vars

\* the first ten outputs of the authors' generator for the seed 5489
RefVector ==
  <<Dec32(<<3, 4, 9, 9, 2, 1, 1, 6, 1, 2>>),
    Dec32(<<5, 8, 1, 8, 6, 9, 3, 0, 2>>),
    Dec32(<<3, 8, 9, 0, 3, 4, 6, 7, 3, 4>>),
    Dec32(<<3, 5, 8, 6, 3, 3, 4, 5, 8, 5>>),
    Dec32(<<5, 4, 5, 4, 0, 4, 2, 0, 4>>),
    Dec32(<<4, 1, 6, 1, 2, 5, 5, 3, 9, 1>>),
    Dec32(<<3, 9, 2, 2, 9, 1, 9, 4, 2, 9>>),
    Dec32(<<9, 4, 9, 3, 3, 3, 9, 8, 5>>),
    Dec32(<<2, 7, 1, 5, 9, 6, 2, 2, 9, 8>>),
    Dec32(<<1, 3, 2, 3, 5, 6, 7, 4, 0, 3>>)>>

SeededState ==
  IF last.kind = PRAND_RNG_MRG32K3A THEN mrg32k3a_seed(SeedOf)
  ELSE mt19937_seed(SeedOf)

\* an init with step 0 and N >= 1 streams, no allocation failing, the error
\* cell not negative at entry
ZeroStepInit ==
  /\ \/ last.op = "prand_init" /\ last.kind \in Kinds
     \/ last.op = "init" /\ ~PRAND_IS_ERROR(last.preErr)
  /\ IsZero(last.step)
  /\ last.nstream >= 1
  /\ NoFailedAlloc(last.log)

(***************************************************************************)
(* C15.  For both generators, init with step 0 and N >= 1 streams succeeds *)
(* and leaves all N streams in the freshly seeded state; jump and jump_all *)
(* with step 0 leave every stream state and the error cell unchanged.      *)
(***************************************************************************)
C15_DegenerateFanOut ==
  /\ ZeroStepInit
       => /\ rng # NULL
          /\ ~PRAND_IS_ERROR(err)
          /\ rng.nstream = last.nstream
          /\ \A i \in 0..(last.nstream - 1) :
               rng.st[rng.state_stream[i]] = SeededState
  /\ last.op \in {"jump", "jump_all"} /\ IsZero(last.step)
       => /\ rng.st = last.pre.st
          /\ err = last.preErr
          /\ last.log = <<>>

\* MT19937 init of MaxStreams streams with step 0
C15_Witness ==
  /\ ZeroStepInit
  /\ last.kind = PRAND_RNG_MT19937
  /\ last.nstream = MaxStreams
  /\ rng.st[MaxStreams - 1] = mt19937_seed(SeedOf)

\* jump_all with step 0 on a handle of several streams whose states differ
C15_WitnessJump ==
  /\ last.op = "jump_all" /\ IsZero(last.step)
  /\ rng.nstream >= 2
  /\ rng.st[0] # rng.st[1]
  /\ err = 0

\* an init with nstream 0, the step in range, no allocation failing, the
\* error cell not negative at entry
ZeroStreamInit ==
  /\ \/ last.op = "prand_init" /\ last.kind \in Kinds
     \/ last.op = "init" /\ ~PRAND_IS_ERROR(last.preErr)
  /\ last.nstream = 0
  /\ StepInRange(last.kind, last.step)
  /\ NoFailedAlloc(last.log)

(***************************************************************************)
(* C16.  For both generators, init with nstream 0 builds a handle of       *)
(* exactly one stream: nstream is 1, state is state_stream[0], and the     *)
(* stream holds the seeded state advanced by step, once: it is the state   *)
(* that one jump by step leaves, and it draws what the seeded state draws  *)
(* after step draws.                                                       *)
(***************************************************************************)
C16_ZeroStreamsIsOneStream ==
  ZeroStreamInit
    => /\ rng # NULL
       /\ ~PRAND_IS_ERROR(err)
       /\ rng.nstream = 1
       /\ DOMAIN rng.st = {0}
       /\ DOMAIN rng.state_stream = {0}
       /\ rng.state = rng.state_stream[0]
       /\ rng.st[rng.state] = JumpState(last.kind, SeededState, last.step)
       /\ Draws(last.kind, rng.st[rng.state], NDraws)
            = Draws(last.kind, Advance(last.kind, SeededState, StepOf), NDraws)
       /\ last.kind = PRAND_RNG_MRG32K3A
            => rng.st[rng.state] = Advance(last.kind, SeededState, StepOf)

\* MRG32k3a init with nstream 0 and a step of two octal digits
C16_Witness ==
  /\ ZeroStreamInit
  /\ last.kind = PRAND_RNG_MRG32K3A
  /\ StepOf = 8 + MaxStep
  /\ rng.nstream = 1
  /\ rng.st[0] # SeededState

ResetAllDone ==
  /\ last.op = "reset_all"
  /\ ~PRAND_IS_ERROR(last.preErr)
  /\ StepInRange(last.kind, last.step)
  /\ NoFailedAlloc(last.log)

\* the stream states of a fresh init(kind, seed, N, step), N the number of
\* streams of the handle
FreshInitStates ==
  prand_init(last.kind, last.seed, rng.nstream, last.step, 0).rng.st

(***************************************************************************)
(* C18.  For both generators, every N >= 1 and every step <= MAX_STEP, the *)
(* N stream states after reset_all(handle, seed, step) equal the N stream  *)
(* states of a fresh init(kind, seed, N, step).                            *)
(***************************************************************************)
C18_ResetAllEqualsInit ==
  ResetAllDone => rng.nstream >= 1 /\ rng.st = FreshInitStates

\* the same, away from the two cases in which the functions differ:
\* MT19937 with N >= 2 and step 0, MRG32k3a with N = 1 and step > 0
C18_ResetAllEqualsInitElsewhere ==
  /\ ResetAllDone
  /\ ~(last.kind = PRAND_RNG_MT19937 /\ rng.nstream >= 2 /\ IsZero(last.step))
  /\ ~(last.kind = PRAND_RNG_MRG32K3A /\ rng.nstream = 1 /\ ~IsZero(last.step))
  => rng.st = FreshInitStates

\* MT19937 reset_all with step 0 on N >= 2 streams: stream 0 is reseeded,
\* the others keep the states they had
C18_MtZeroStepKeepsStreams ==
  /\ ResetAllDone
  /\ last.kind = PRAND_RNG_MT19937 /\ rng.nstream >= 2 /\ IsZero(last.step)
  => /\ rng.st[0] = SeededState
     /\ \A i \in 1..(rng.nstream - 1) : rng.st[i] = last.pre.st[i]

(***************************************************************************)
(* Long steps.  The two functions that turn a step into a jump operator,   *)
(* matrix_pow and get_poly, applied on their own, and the calls of the     *)
(* library that lead to them: prand_init, and jump, jump_all, reset and    *)
(* reset_all on a handle of MaxStreams streams made with step 0.  The      *)
(* steps are 0..MaxPow, the steps g * 8^i and the steps with the digit g   *)
(* in their L low octal digits (the largest is MAX_STEP); the calls of the *)
(* library also take 2^63.  After matrix_pow or get_poly, last holds the   *)
(* step, the operator returned, the table entries read and the number of   *)
(* products.                                                               *)
(***************************************************************************)
MaxPow == 16

\* g * 8^i
OneDigit(g, i) == [k \in 1..NDIGIT |-> IF k = i + 1 THEN g ELSE 0]
\* g * (8^0 + ... + 8^(L-1))
LowDigits(g, L) == [k \in 1..NDIGIT |-> IF k <= L THEN g ELSE 0]

PowSteps ==
  {U64(n) : n \in 0..MaxPow}
  \cup {OneDigit(g, i) : g \in 1..7, i \in 0..(MRG32K3A_MAX_STEP_B8 - 1)}
  \cup {LowDigits(g, L) : g \in 1..7, L \in 1..MRG32K3A_MAX_STEP_B8}

CallSteps == PowSteps \cup {Bit63(0)}

PowInit ==
  /\ rng = NULL
  /\ err = 0
  /\ heap = {}
  /\ last = [op |-> "none", kind |-> 0, i |-> 0, seed |-> 0, nstream |-> 0,
             step |-> U64(0), pre |-> NULL, preErr |-> 0, call |-> NoCall,
             log |-> <<>>, out |-> 0]
  /\ nops = 0

MatrixPow(step) ==
  /\ rng = NULL
  /\ last.op = "none"
  /\ \E r \in {matrix_pow_run(step)} :
       last' = [op |-> "matrix_pow", step |-> step, A |-> r.A,
                used |-> r.used, n |-> r.ndot, log |-> <<>>]
  /\ UNCHANGED <<rng, err, heap, nops>>

GetPoly(step) ==
  /\ rng = NULL
  /\ last.op = "none"
  /\ \E r \in {get_poly_run(step, TRUE)} :
       last' = [op |-> "get_poly", step |-> step, A |-> Rd(r.poly, 0, N),
                used |-> r.used, n |-> r.nmul, log |-> <<>>]
  /\ UNCHANGED <<rng, err, heap, nops>>

\* the handle is the one that prand_init made with step 0
FreshHandle == last.op = "prand_init" /\ IsZero(last.step)

PowNext ==
  \/ \E step \in PowSteps : MatrixPow(step)
  \/ \E step \in PowSteps : GetPoly(step)
  \/ \E kind \in Kinds, step \in CallSteps :
        PrandInit(kind, DEFAULT_SEED, MaxStreams, step, 0)
  \/ \E step \in CallSteps : FreshHandle /\ Jump(MaxStreams - 1, step, 0)
  \/ \E step \in CallSteps : FreshHandle /\ JumpAll(step, 0)
  \/ \E step \in CallSteps :
        FreshHandle /\ Reset(MaxStreams - 1, DEFAULT_SEED, step, 0)
  \/ \E step \in CallSteps : FreshHandle /\ ResetAll(DEFAULT_SEED, step, 0)

PowSpec == PowInit /\ [][PowNext]_vars

\* the 3x3 identity matrix, row by row
Identity == [x \in 0..8 |-> IF x \in {0, 4, 8} THEN 1 ELSE 0]
\* the N words of the polynomial 1
PolyOne == [k \in 0..(N - 1) |-> IF k = 0 THEN 1 ELSE 0]

C19_ZeroStepIsOneStep ==
  IsZero(last.step)
    => /\ last.op = "matrix_pow"
            => /\ last.A = [A1 |-> A1gj8i(0, 0), A2 |-> A2gj8i(0, 0)]
               /\ last.A = matrix_pow(U64(1))
               /\ last.A = [A1 |-> MrgA1, A2 |-> MrgA2]
               /\ last.used = << <<0, 0>> >>
       /\ last.op = "get_poly"
            => /\ last.A = mt19937_poly(0, 0)
               /\ last.A = Rd(get_poly(U64(1), TRUE), 0, N)
               /\ last.A = PolyWords(2)
               /\ last.used = << <<0, 0>> >>

\* a + b on steps
U64Add(a, b) ==
  For(LAMBDA c, k :
        [sum   |-> [c.sum EXCEPT ![k] = (a[k] + b[k] + c.carry) % 8],
         carry |-> (a[k] + b[k] + c.carry) \div 8],
      1, NDIGIT, [sum |-> U64(0), carry |-> 0]).sum

\* the sum of the jump lengths (j + 1) * 8^i of the table entries <<i, j>>
JumpLengths(used) ==
  For(LAMBDA c, k : U64Add(c, OneDigit(used[k][2] + 1, used[k][1])),
      1, Len(used), U64(0))

\* the digit loop: the entries read, their number, the products
DigitLoopBounds ==
  last.op \in {"matrix_pow", "get_poly"} /\ ~IsZero(last.step)
    => /\ ~U64Gt(last.step, MRG32K3A_MAX_STEP)
       /\ \A k \in 1..Len(last.used) :
            /\ last.used[k][1] \in 0..20
            /\ last.used[k][2] \in 0..6
       /\ Len(last.used) \in 1..21
       /\ last.n = Len(last.used) - 1
       /\ last.n <= 20
       /\ JumpLengths(last.used) = last.step

\* the blocks of the caller's that matrix_pow and get_poly write
PowBlocks == {"A", "poly"}

ReachesPow == \E k \in 1..Len(last.log) : last.log[k].blk \in PowBlocks

\* the call paths: a call of the library that reaches matrix_pow or
\* get_poly has a step that is neither 0 nor above MAX_STEP
StepCheckedOnEveryPath ==
  ReachesPow
    => /\ ~U64Gt(last.step, MRG32K3A_MAX_STEP)
       /\ ~U64Gt(last.step, MT19937_MAX_STEP)
       /\ ~IsZero(last.step)

(***************************************************************************)
(* C20.  On every call path that reaches matrix_pow or get_poly the step   *)
(* is at most MAX_STEP, and for every step in 1..2^63 - 1 the digit loop   *)
(* reads only table entries [i][g-1] with 0 <= i <= 20 and 0 <= g-1 <= 6,  *)
(* reads at most 21 entries and makes at most 20 products, and the jump    *)
(* lengths g * 8^i of the entries read sum to the step.                    *)
(***************************************************************************)
C20_Base8Decomposition == DigitLoopBounds /\ StepCheckedOnEveryPath

\* get_poly on MAX_STEP: 21 entries read, 20 products
C20_Witness ==
  /\ last.op = "get_poly"
  /\ last.step = MT19937_MAX_STEP
  /\ Len(last.used) = 21
  /\ last.n = 20
  /\ last.used[21] = <<20, 6>>

\* a reset_all that reaches matrix_pow with MAX_STEP
C20_WitnessPath ==
  /\ last.op = "reset_all" /\ last.kind = PRAND_RNG_MRG32K3A
  /\ ReachesPow
  /\ last.step = MRG32K3A_MAX_STEP

\* a jump with the step 2^63, which returns before get_poly
C20_WitnessOversize ==
  /\ last.op = "jump" /\ last.kind = PRAND_RNG_MT19937
  /\ U64Gt(last.step, MT19937_MAX_STEP)
  /\ ~ReachesPow
  /\ err = PRAND_ERR_STEP

\* matrix_pow on step 0
C19_Witness ==
  /\ last.op = "matrix_pow"
  /\ IsZero(last.step)
  /\ last.A.A1 # Identity

\* a reset_all with step 0 on a handle of N >= 2 streams, the error cell not
\* negative at entry
ZeroStepResetAll ==
  /\ last.op = "reset_all"
  /\ ~PRAND_IS_ERROR(last.preErr)
  /\ IsZero(last.step)
  /\ rng.nstream >= 2

C21_WitnessMrg ==
  /\ ZeroStepResetAll
  /\ last.kind = PRAND_RNG_MRG32K3A
  /\ last.pre.st[1] # SeededState
  /\ rng.st[1] = SeededState

\* the streams that the last call put through state_forward, and so through
\* recover_state: MT19937, a step that is neither 0 nor above the maximum,
\* the error cell not negative at entry, no allocation failing
RecoveredStreams ==
  IF /\ rng # NULL
     /\ last.kind = PRAND_RNG_MT19937
     /\ last.op \in {"jump", "jump_all"}
     /\ ~PRAND_IS_ERROR(last.preErr)
     /\ ~IsZero(last.step)
     /\ StepInRange(last.kind, last.step)
     /\ NoFailedAlloc(last.log)
    THEN IF last.op = "jump" THEN {rng.state_stream[last.i]}
         ELSE {rng.state_stream[i] : i \in 0..(rng.nstream - 1)}
    ELSE {}

\* the draw from s and the state it leaves when the draw twists first
TwistThenRead(s) ==
  Let(gen_words(s.mt), LAMBDA mt :
      [st |-> [mt |-> mt, idx |-> 1], out |-> tempering(mt[0])])

(***************************************************************************)
(* C22.  After an MT19937 jump has rebuilt a state (recover_state), idx is *)
(* 0 and the next draw from that state performs a full twist before it     *)
(* reads a word.                                                           *)
(***************************************************************************)
C22_NextDrawTwists ==
  \A x \in RecoveredStreams :
    /\ rng.st[x].idx = 0
    /\ mt19937_get(rng.st[x]) = TwistThenRead(rng.st[x])

\* C22 as the code has it: idx is 0, and the next N draws read the words
\* mt[0] .. mt[N-1] of the rebuilt state as they are; the draw after them
\* is the one that twists
C22_NextDrawReadsWord ==
  \A x \in RecoveredStreams :
    /\ rng.st[x].idx = 0
    /\ Draws(PRAND_RNG_MT19937, rng.st[x], N)
         = [k \in 1..N |-> tempering(rng.st[x].mt[k - 1])]
    /\ Advance(PRAND_RNG_MT19937, rng.st[x], N)
         = [mt |-> rng.st[x].mt, idx |-> N]
    /\ mt19937_get(Advance(PRAND_RNG_MT19937, rng.st[x], N))
         = TwistThenRead(rng.st[x])

\* a rebuilt state on which a twist would show: the twisted array differs
\* from the array, and its first word tempers to another value
C22_Witness ==
  \E x \in RecoveredStreams :
    /\ rng.st[x].idx = 0
    /\ gen_words(rng.st[x].mt) # rng.st[x].mt
    /\ mt19937_get(rng.st[x]).out # TwistThenRead(rng.st[x]).out
    /\ mt19937_get(rng.st[x]).st.mt = rng.st[x].mt

(***************************************************************************)
(* Calls with arguments that point to the same object.  heap holds the     *)
(* objects by name: the matrices X, Y and D, the MRG32k3a states and the   *)
(* MT19937 states s and d; a call names its arguments, so that an output   *)
(* can be the object an input is read from.  last holds the call and the   *)
(* objects as the call found them.                                         *)
(***************************************************************************)
MaxAlias == 1

\* matrix_dot writing C[x] as soon as it is computed, without out[]
matrix_dot_at_direct(mem, C, A, B, m) ==
  For(LAMBDA c, x :
        LET r == 3 * (x \div 3)
            k == x % 3
        IN  [c EXCEPT ![C][x] =
               (((c[A][r] * c[B][k]) % m) + ((c[A][r + 1] * c[B][k + 3]) % m)
                + ((c[A][r + 2] * c[B][k + 6]) % m)) % m],
      0, 8, mem)

\* matrix_dot(C, A, B, m) on the matrices of mem: out[] is computed from A
\* and B, then copied to C entry by entry
matrix_dot_at(mem, C, A, B, m) ==
  Let(matrix_dot_out(mem[A], mem[B], m), LAMBDA out :
      For(LAMBDA c, x : [c EXCEPT ![C][x] = out[x]], 0, 8, mem))

\* state_forward(out, in, A1, A2) of mrg32k3a.c on the states of mem: s0,
\* s1, s2 are read from in, three components of out are written, and the
\* same again for the second component
mrg_state_forward_at(mem, out, in, A1, A2) ==
  LET half(c, Am, m, f0, f1, f2) ==
        Let(c[in], LAMBDA s :
            LET s0 == s[f0]
                s1 == s[f1]
                s2 == s[f2]
            IN  [c EXCEPT
                   ![out][f0] = (((Am[0] * s0) % m) + ((Am[1] * s1) % m)
                                 + ((Am[2] * s2) % m)) % m,
                   ![out][f1] = (((Am[3] * s0) % m) + ((Am[4] * s1) % m)
                                 + ((Am[5] * s2) % m)) % m,
                   ![out][f2] = (((Am[6] * s0) % m) + ((Am[7] * s1) % m)
                                 + ((Am[8] * s2) % m)) % m])
  IN  Let(half(mem, A1, m1, "s10", "s11", "s12"), LAMBDA mem1 :
          half(mem1, A2, m2, "s20", "s21", "s22"))

\* copy_state(dst, src) of mt19937.c on the states of mem
mt_copy_state_at(mem, dst, src) ==
  IF dst = src THEN mem
  ELSE [mem EXCEPT ![dst] = mt_copy_state(mem[dst], mem[src])]

\* state_forward(out, in, poly) of mt19937.c on the states of mem: after
\* copy_state(out, in) the function works on out alone
mt_state_forward_at(mem, out, in, poly) ==
  Let(mt_copy_state_at(mem, out, in), LAMBDA mem1 :
      [mem1 EXCEPT ![out] = mt_state_forward(mem1[out], poly).st])

\* a matrix that is no power of A1 or A2: every entry the largest below m2
FullMatrix == [x \in 0..8 |-> m2 - 1]
AliasMats == {MrgA1, A2gj8i(0, 1), FullMatrix}
AliasSteps == {U64(1), U64(8 + MaxStep)}

AliasInit ==
  /\ rng = NULL
  /\ err = 0
  /\ \E X \in AliasMats, Y \in AliasMats, a \in 1..MaxSeed, b \in 1..MaxSeed :
       heap = [mat |-> [X |-> X, Y |-> Y, D |-> [x \in 0..8 |-> 0]],
               mrg |-> [s |-> mrg32k3a_seed(a), d |-> mrg32k3a_seed(b)],
               mt  |-> [s |-> mt19937_seed(a), d |-> mt19937_seed(b)]]
  /\ last = [op |-> "none"]
  /\ nops = 0

\* matrix_dot(C, A, B, m)
AliasDot(C, A, B, m) ==
  /\ nops < MaxAlias
  /\ heap' = [heap EXCEPT !.mat = matrix_dot_at(heap.mat, C, A, B, m)]
  /\ last' = [op |-> "matrix_dot", out |-> C, A |-> A, B |-> B, m |-> m,
              pre |-> heap]
  /\ nops' = nops + 1
  /\ UNCHANGED <<rng, err>>

\* state_forward(out, in, A1, A2) of mrg32k3a.c, the matrices those of step
AliasForwardMrg(out, in, step) ==
  /\ nops < MaxAlias
  /\ \E A \in {matrix_pow(step)} :
       heap' = [heap EXCEPT
                  !.mrg = mrg_state_forward_at(heap.mrg, out, in, A.A1, A.A2)]
  /\ last' = [op |-> "mrg_state_forward", out |-> out, in |-> in,
              step |-> step, pre |-> heap]
  /\ nops' = nops + 1
  /\ UNCHANGED <<rng, err>>

\* state_forward(out, in, poly) of mt19937.c, the polynomial that of step
AliasForwardMt(out, in, step) ==
  /\ nops < MaxAlias
  /\ \E poly \in {get_poly(step, TRUE)} :
       heap' = [heap EXCEPT
                  !.mt = mt_state_forward_at(heap.mt, out, in, poly)]
  /\ last' = [op |-> "mt_state_forward", out |-> out, in |-> in,
              step |-> step, pre |-> heap]
  /\ nops' = nops + 1
  /\ UNCHANGED <<rng, err>>

AliasNext ==
  \/ \E C \in {"X", "Y", "D"}, A \in {"X", "Y"}, B \in {"X", "Y"},
        m \in {m1, m2} : AliasDot(C, A, B, m)
  \/ \E out \in {"s", "d"}, in \in {"s", "d"}, step \in AliasSteps :
        AliasForwardMrg(out, in, step)
  \/ \E out \in {"s", "d"}, in \in {"s", "d"}, step \in AliasSteps :
        AliasForwardMt(out, in, step)

AliasSpec == AliasInit /\ [][AliasNext]_vars

\* entry x of the product of the matrices A and B, reduced modulo m
DotEntry(A, B, m, x) ==
  LET r == 3 * (x \div 3)
      k == x % 3
  IN  (A[r] * B[k] + A[r + 1] * B[k + 3] + A[r + 2] * B[k + 6]) % m

\* the state slot that is not x
OtherState(x) == IF x = "s" THEN "d" ELSE "s"

(***************************************************************************)
(* C23.  matrix_dot(C, A, B, m) leaves in C the product (A * B) mod m of   *)
(* the matrices A and B as the call found them, whether C is A, B, both or *)
(* a matrix of its own, and leaves every other matrix alone; state_forward *)
(* of MRG32k3a and of MT19937 with out == in leaves in out the state that  *)
(* the call with another destination leaves there.                         *)
(***************************************************************************)
C23_AliasingTolerated ==
  /\ last.op = "matrix_dot" =>
       /\ heap.mat[last.out]
            = matrix_dot_at(last.pre.mat, "D", last.A, last.B, last.m)["D"]
       /\ \A x \in 0..8 :
            heap.mat[last.out][x]
              = DotEntry(last.pre.mat[last.A], last.pre.mat[last.B], last.m, x)
       /\ \A c \in {"X", "Y", "D"} \ {last.out} :
            heap.mat[c] = last.pre.mat[c]
  /\ last.op = "mrg_state_forward" =>
       LET A == matrix_pow(last.step)
       IN  /\ heap.mrg[last.out]
                = mrg_state_forward_at(last.pre.mrg, OtherState(last.in),
                                       last.in, A.A1, A.A2)[OtherState(last.in)]
           /\ heap.mrg[OtherState(last.out)]
                = last.pre.mrg[OtherState(last.out)]
  /\ last.op = "mt_state_forward" =>
       LET poly == get_poly(last.step, TRUE)
       IN  /\ heap.mt[last.out]
                = mt_state_forward_at(last.pre.mt, OtherState(last.in),
                                      last.in, poly)[OtherState(last.in)]
           /\ heap.mt[OtherState(last.out)]
                = last.pre.mt[OtherState(last.out)]

\* C = A = B: a matrix squared in place, the square another matrix
C23_Witness ==
  /\ last.op = "matrix_dot"
  /\ last.out = last.A /\ last.A = last.B
  /\ heap.mat[last.out] # last.pre.mat[last.out]
  /\ matrix_dot_at_direct(last.pre.mat, last.out, last.A, last.B, last.m)
       # heap.mat

\* state_forward with out == in, for each generator
C23_WitnessMrg ==
  /\ last.op = "mrg_state_forward"
  /\ last.out = last.in
  /\ heap.mrg[last.out] # last.pre.mrg[last.out]

C23_WitnessMt ==
  /\ last.op = "mt_state_forward"
  /\ last.out = last.in
  /\ heap.mt[last.out] # last.pre.mt[last.out]

(***************************************************************************)
(* MRG32k3a at its full width (src/src/mrg32k3a.c with m1 = 2^32 - 209,    *)
(* m2 = 2^32 - 22853 and 64-bit integers).  A natural number below 2^128   *)
(* is the tuple of its sixteen bytes, low byte first; a uint64_t holds the *)
(* low eight bytes of a value, an int64_t a sign and a magnitude below     *)
(* 2^63.  The exact operations are computed on the sixteen bytes, and what *)
(* the 64-bit types keep of them is taken from there, so that a            *)
(* wraparound shows as a difference between the two.                       *)
(***************************************************************************)
\* two words of eight bytes
WIDE == 2 * 8

\* the number n, n < 2^31
Wide(n) ==
  [i \in 1..WIDE |-> IF i > 4 THEN 0 ELSE (n \div Pow2(8 * (i - 1))) % 256]

\* a + b and a - b (a >= b) on the bytes, the carry passed along
WideAdd(a, b) ==
  For(LAMBDA c, i :
        LET t == a[i] + b[i] + c.carry
        IN  [out |-> [c.out EXCEPT ![i] = t % 256], carry |-> t \div 256],
      1, WIDE, [out |-> a, carry |-> 0]).out

WideSub(a, b) ==
  For(LAMBDA c, i :
        LET t == a[i] - b[i] - c.carry
        IN  [out |-> [c.out EXCEPT ![i] = t % 256],
             carry |-> IF t < 0 THEN 1 ELSE 0],
      1, WIDE, [out |-> a, carry |-> 0]).out

\* a < b
WideLt(a, b) ==
  \E i \in 1..WIDE : a[i] < b[i] /\ \A k \in (i + 1)..WIDE : a[k] = b[k]

\* a * b for a, b < 2^64: column i of the long multiplication, with carry
WideMul(a, b) ==
  For(LAMBDA c, i :
        LET t == For(LAMBDA s, k :
                       IF i + 1 - k \in 1..8 THEN s + a[k] * b[i + 1 - k]
                       ELSE s,
                     1, 8, c.carry)
        IN  [out |-> [c.out EXCEPT ![i] = t % 256], carry |-> t \div 256],
      1, WIDE, [out |-> Wide(0), carry |-> 0]).out

\* the number written with the decimal digits ds, high digit first
WideDec(ds) ==
  For(LAMBDA c, i : WideAdd(WideMul(c, Wide(10)), Wide(ds[i])),
      1, Len(ds), Wide(0))

\* bit i of a, i from 0
WideBit(a, i) == (a[(i \div 8) + 1] \div Pow2(i % 8)) % 2

\* a % m for a modulus m < 2^32, by long division over the bits of a from
\* the top; the remainder is held in two halves of sixteen bits
WideMod(a, m) ==
  LET mh == m[3] + 256 * m[4]
      ml == m[1] + 256 * m[2]
      r == For(LAMBDA c, d :
                 LET lo == 2 * c.lo + WideBit(a, 8 * WIDE - 1 - d)
                     hi == 2 * c.hi + (lo \div 65536)
                     l  == lo % 65536
                 IN  IF hi > mh \/ (hi = mh /\ l >= ml)
                       THEN IF l >= ml THEN [hi |-> hi - mh, lo |-> l - ml]
                            ELSE [hi |-> hi - mh - 1, lo |-> l + 65536 - ml]
                       ELSE [hi |-> hi, lo |-> l],
               0, 8 * WIDE - 1, [hi |-> 0, lo |-> 0])
  IN  [i \in 1..WIDE |->
         IF i = 1 THEN r.lo % 256
         ELSE IF i = 2 THEN r.lo \div 256
         ELSE IF i = 3 THEN r.hi % 256
         ELSE IF i = 4 THEN r.hi \div 256
         ELSE 0]

\* what a uint64_t keeps of a value, and whether that is all of it
Low64(a) == [i \in 1..WIDE |-> IF i > 8 THEN 0 ELSE a[i]]
FitsU64(a) == \A i \in 9..WIDE : a[i] = 0
\* a < 2^63
Below63(a) == FitsU64(a) /\ a[8] < 128

\* 4294967087LL and 4294944443LL
m1_64 == WideDec(<<4, 2, 9, 4, 9, 6, 7, 0, 8, 7>>)
m2_64 == WideDec(<<4, 2, 9, 4, 9, 4, 4, 4, 4, 3>>)

\* the line without the inner reductions: (a0 * b0 + a1 * b1 + a2 * b2) % m
dot_line64_unreduced(a0, b0, a1, b1, a2, b2, m) ==
  Let(WideMul(a0, b0), LAMBDA p0 :
  Let(WideMul(a1, b1), LAMBDA p1 :
  Let(WideMul(a2, b2), LAMBDA p2 :
  Let(WideAdd(Low64(p0), Low64(p1)), LAMBDA t1 :
  Let(WideAdd(Low64(t1), Low64(p2)), LAMBDA t2 :
      [prod |-> <<p0, p1, p2>>,
       sum  |-> <<t1, t2>>,
       out  |-> WideMod(Low64(t2), m)])))))

\* The three terms of one line of matrix_dot or state_forward, (a0 * b0) %
\* m + (a1 * b1) % m + (a2 * b2) % m, and the final % m, in uint64_t: every
\* value is recorded as it is exactly (prod, sum) beside what the type
\* keeps of it.
dot_line64(a0, b0, a1, b1, a2, b2, m) ==
  Let(WideMul(a0, b0), LAMBDA p0 :
  Let(WideMul(a1, b1), LAMBDA p1 :
  Let(WideMul(a2, b2), LAMBDA p2 :
  Let(WideAdd(WideMod(Low64(p0), m), WideMod(Low64(p1), m)), LAMBDA t1 :
  Let(WideAdd(Low64(t1), WideMod(Low64(p2), m)), LAMBDA t2 :
      [prod |-> <<p0, p1, p2>>,
       sum  |-> <<t1, t2>>,
       out  |-> WideMod(Low64(t2), m)])))))

\* matrix_dot at full width: the nine lines that fill out[]
matrix_dot64(A, B, m) ==
  [x \in 0..8 |->
     LET r == 3 * (x \div 3)
         k == x % 3
     IN  dot_line64(A[r], B[k], A[r + 1], B[k + 3], A[r + 2], B[k + 6], m)]

\* state_forward of mrg32k3a.c at full width: the lines for s10, s11, s12
\* with A1 and m1, then those for s20, s21, s22 with A2 and m2
state_forward64(in, A1, A2) ==
  [x \in 0..5 |->
     LET r  == 3 * (x % 3)
         Am == IF x < 3 THEN A1 ELSE A2
         s  == IF x < 3 THEN <<in.s10, in.s11, in.s12>>
               ELSE <<in.s20, in.s21, in.s22>>
     IN  dot_line64(Am[r], s[1], Am[r + 1], s[2], Am[r + 2], s[3],
                    IF x < 3 THEN m1_64 ELSE m2_64)]

(***************************************************************************)
(* The operands: 0, 1, 2^31 and the modulus less one, in the three places  *)
(* of a row of the left matrix and, one value for all, in the right matrix *)
(* and the state.  heap holds the operands, last the call and every value  *)
(* it computed.                                                            *)
(***************************************************************************)
WideNames == {"zero", "one", "half", "top"}

WideOf(name, m) ==
  IF name = "zero" THEN Wide(0)
  ELSE IF name = "one" THEN Wide(1)
  ELSE IF name = "half" THEN [Wide(0) EXCEPT ![4] = 128]
  ELSE WideSub(m, Wide(1))

\* the matrix whose rows are all (a[1], a[2], a[3])
RowMatrix(a, m) == [x \in 0..8 |-> WideOf(a[(x % 3) + 1], m)]
\* the matrix whose entries are all b but for the diagonal, where a[1] is
FlatMatrix(a, b, m) ==
  [x \in 0..8 |-> WideOf(IF x \in {0, 4, 8} THEN a[1] ELSE b, m)]

WideInit ==
  /\ rng = NULL
  /\ err = 0
  /\ nops = 0
  /\ last = [op |-> "none"]
  /\ \E a \in WideNames \X WideNames \X WideNames, b \in WideNames :
       heap = [A1 |-> RowMatrix(a, m1_64), B1 |-> FlatMatrix(a, b, m1_64),
               A2 |-> RowMatrix(a, m2_64), B2 |-> FlatMatrix(a, b, m2_64),
               s  |-> [s10 |-> WideOf(a[1], m1_64), s11 |-> WideOf(a[2], m1_64),
                       s12 |-> WideOf(b, m1_64),
                       s20 |-> WideOf(a[1], m2_64), s21 |-> WideOf(b, m2_64),
                       s22 |-> WideOf(a[3], m2_64)]]

\* matrix_dot(C, A, B, m) with m1 (k = 1) or m2 (k = 2)
WideDot(k) ==
  /\ last.op = "none"
  /\ last' = [op |-> "matrix_dot",
              m |-> IF k = 1 THEN m1_64 ELSE m2_64,
              A |-> IF k = 1 THEN heap.A1 ELSE heap.A2,
              B |-> IF k = 1 THEN heap.B1 ELSE heap.B2,
              line |-> IF k = 1 THEN matrix_dot64(heap.A1, heap.B1, m1_64)
                       ELSE matrix_dot64(heap.A2, heap.B2, m2_64)]
  /\ UNCHANGED <<rng, err, heap, nops>>

\* state_forward(out, in, A1, A2)
WideForward ==
  /\ last.op = "none"
  /\ last' = [op |-> "state_forward",
              line |-> state_forward64(heap.s, heap.A1, heap.A2)]
  /\ UNCHANGED <<rng, err, heap, nops>>

\* An int64_t value: its sign and its magnitude, exact.
SInt(neg, mag) == [neg |-> neg /\ mag # Wide(0), mag |-> mag]

SAdd(x, y) ==
  IF x.neg = y.neg THEN SInt(x.neg, WideAdd(x.mag, y.mag))
  ELSE IF WideLt(x.mag, y.mag) THEN SInt(y.neg, WideSub(y.mag, x.mag))
  ELSE SInt(x.neg, WideSub(x.mag, y.mag))

\* x % m of C for m > 0: the remainder has the sign of x
SMod(x, m) == SInt(x.neg, WideMod(x.mag, m))

\* 3482050076509336LL and 5886603609186927LL
add1_64 == WideDec(<<3, 4, 8, 2, 0, 5, 0, 0, 7, 6, 5, 0, 9, 3, 3, 6>>)
add2_64 == WideDec(<<5, 8, 8, 6, 6, 0, 3, 6, 0, 9, 1, 8, 6, 9, 2, 7>>)

\* (a * x + b * y + add) % m of mrg32k3a_get for a > 0 > b, in int64_t:
\* the values of a * x, b * y, a * x + b * y and of the sum with add, and
\* the remainder
get_line64(a, x, b, y, add, m) ==
  Let(SInt(FALSE, WideMul(Wide(a), x)), LAMBDA t1 :
  Let(SInt(TRUE, WideMul(Wide(-b), y)), LAMBDA t2 :
  Let(SAdd(t1, t2), LAMBDA t3 :
  Let(SAdd(t3, SInt(FALSE, add)), LAMBDA t4 :
      [val |-> <<t1, t2, t3, t4>>, p |-> SMod(t4, m)]))))

\* mrg32k3a_get with add1 and add2 left out
mrg32k3a_get64_no_add(stat) ==
  [c1 |-> get_line64(a12, stat.s11, a13, stat.s10, Wide(0), m1_64),
   c2 |-> get_line64(a21, stat.s22, a23, stat.s20, Wide(0), m2_64)]

\* p1 and p2 of mrg32k3a_get at full width
mrg32k3a_get64(stat) ==
  [c1 |-> get_line64(a12, stat.s11, a13, stat.s10, add1_64, m1_64),
   c2 |-> get_line64(a21, stat.s22, a23, stat.s20, add2_64, m2_64)]

\* rng->get on the state
WideGet ==
  /\ last.op = "none"
  /\ last' = [op |-> "get", pre |-> heap.s, line |-> mrg32k3a_get64(heap.s)]
  /\ UNCHANGED <<rng, err, heap, nops>>

WideNext ==
  \/ \E k \in 1..2 : WideDot(k)
  \/ WideForward
  \/ WideGet

WideSpec == WideInit /\ [][WideNext]_vars

\* the lines of the last matrix_dot or state_forward
DotLines ==
  IF last.op \in {"matrix_dot", "state_forward"}
    THEN {last.line[x] : x \in DOMAIN last.line}
    ELSE {}

\* the operands of line x of the last call: <<a0, b0, a1, b1, a2, b2, m>>
DotOperands(x) ==
  IF last.op = "matrix_dot"
    THEN LET r == 3 * (x \div 3)
             k == x % 3
         IN  <<last.A[r], last.B[k], last.A[r + 1], last.B[k + 3],
               last.A[r + 2], last.B[k + 6], last.m>>
    ELSE LET r  == 3 * (x % 3)
             Am == IF x < 3 THEN heap.A1 ELSE heap.A2
         IN  IF x < 3
               THEN <<Am[r], heap.s.s10, Am[r + 1], heap.s.s11,
                      Am[r + 2], heap.s.s12, m1_64>>
               ELSE <<Am[r], heap.s.s20, Am[r + 1], heap.s.s21,
                      Am[r + 2], heap.s.s22, m2_64>>

\* (a0 * b0 + a1 * b1 + a2 * b2) mod m, nothing cut
ExactDot(o) ==
  WideMod(WideAdd(WideAdd(WideMul(o[1], o[2]), WideMul(o[3], o[4])),
                  WideMul(o[5], o[6])), o[7])

\* no value of the last call is cut by uint64_t, and every result is the
\* exact row-by-column product reduced
NoWraparound ==
  /\ \A l \in DotLines :
       /\ \A i \in 1..3 : FitsU64(l.prod[i])
       /\ \A i \in 1..2 : Below63(l.sum[i])
  /\ last.op \in {"matrix_dot", "state_forward"} =>
       \A x \in DOMAIN last.line :
         last.line[x].out = ExactDot(DotOperands(x))

(***************************************************************************)
(* C24.  In matrix_dot and in state_forward of MRG32k3a, for operands      *)
(* below the modulus, every intermediate product and every sum of three    *)
(* reduced products stays below 2^63, so that nothing wraps around in 64   *)
(* bits and each result is the exact (row . column) mod m.                 *)
(***************************************************************************)
C24_ProductsBelow63 ==
  /\ NoWraparound
  /\ \A l \in DotLines : \A i \in 1..3 : Below63(l.prod[i])

\* C24 with the bound that the products keep: each product stays below
\* 2^64, the range of uint64_t, and each sum of reduced products below 2^63
C24_ProductsBelow64 == NoWraparound

\* a product above 2^63 that uint64_t holds whole: (m1 - 1) * (m1 - 1)
C24_Witness ==
  /\ last.op = "matrix_dot"
  /\ \E l \in DotLines : \E i \in 1..3 :
       /\ ~Below63(l.prod[i])
       /\ FitsU64(l.prod[i])
       /\ l.out # Wide(0)

\* the same in state_forward
C24_WitnessForward ==
  /\ last.op = "state_forward"
  /\ \E l \in DotLines : \E i \in 1..3 : ~Below63(l.prod[i])

\* (a * x - b * y) mod m in the naturals, for y <= m: a * x + b * (m - y)
ExactResidue(a, x, b, y, m) ==
  WideMod(WideAdd(WideMul(Wide(a), x), WideMul(Wide(b), WideSub(m, y))), m)

\* the line c of a get keeps within int64_t, its value before the reduction
\* is not negative, and its remainder is r
GetLineExact(c, r) ==
  /\ \A i \in 1..4 : Below63(c.val[i].mag)
  /\ ~c.val[4].neg
  /\ Below63(c.val[4].mag)
  /\ c.p = [neg |-> FALSE, mag |-> r]

(***************************************************************************)
(* C25.  For any state within range, the values a12*s11 + a13*s10 + add1   *)
(* and a21*s22 + a23*s20 + add2 that mrg32k3a_get computes are not         *)
(* negative and below 2^63 before the final reduction, so that p1 is       *)
(* (1403580*s11 - 810728*s10) mod m1 and p2 is (527612*s22 - 1370589*s20)  *)
(* mod m2, the non-negative residues.                                      *)
(***************************************************************************)
C25_RecurrenceExact ==
  last.op = "get" =>
    /\ GetLineExact(last.line.c1,
                    ExactResidue(1403580, last.pre.s11, 810728, last.pre.s10,
                                 m1_64))
    /\ GetLineExact(last.line.c2,
                    ExactResidue(527612, last.pre.s22, 1370589, last.pre.s20,
                                 m2_64))

\* the lowest value: s11 = 0 and s10 = m1 - 1, where a12*s11 + a13*s10 is
\* negative and add1 lifts it to 810728
C25_Witness ==
  /\ last.op = "get"
  /\ last.pre.s11 = Wide(0)
  /\ last.pre.s10 = WideSub(m1_64, Wide(1))
  /\ last.line.c1.val[3].neg
  /\ last.line.c1.val[4] = [neg |-> FALSE, mag |-> Wide(810728)]
  /\ last.line.c1.p.mag = Wide(810728)

\* the highest value: s22 = m2 - 1 and s20 = 0
C25_WitnessHigh ==
  /\ last.op = "get"
  /\ last.pre.s22 = WideSub(m2_64, Wide(1))
  /\ last.pre.s20 = Wide(0)
  /\ ~last.line.c2.val[3].neg
  /\ WideLt(add2_64, last.line.c2.val[4].mag)

(***************************************************************************)
(* The multiplications on their own, for polynomials of 1 to MaxLimbs      *)
(* words.  One block of 14n words holds a (2n words), b (n words), r (3n   *)
(* words) and tmp (5n words), with n words before r, between r and tmp     *)
(* and after tmp that no call may touch; r, tmp and those words start out  *)
(* all zeros or all ones.  heap holds the block as the call finds it, last *)
(* the call and the block it leaves.                                       *)
(***************************************************************************)
MaxLimbs == 15

MulA(n) == 0
MulB(n) == 2 * n
MulR(n) == 4 * n
MulTmp(n) == 8 * n
MulSize(n) == 14 * n

\* the words of three polynomials: every bit set, and two mixtures
MulWords == {"ones", "odd", "mix"}
MulWord(name, k) ==
  IF name = "ones" THEN WordMod - 1
  ELSE IF name = "odd" THEN (37 * k * k + 101 * k + 77) % WordMod
  ELSE PRAND_LCG(PRAND_LCG(k + 5)) % WordMod

MulInit ==
  /\ rng = NULL
  /\ err = 0
  /\ nops = 0
  /\ last = [op |-> "none"]
  /\ \E n \in 1..MaxLimbs, pa \in MulWords, pb \in MulWords,
        fill \in {0, WordMod - 1} :
       heap = [n |-> n, fill |-> fill,
               mem |-> [x \in 0..(MulSize(n) - 1) |->
                          IF x < MulB(n) THEN MulWord(pa, x)
                          ELSE IF x < MulB(n) + n THEN MulWord(pb, x - MulB(n))
                          ELSE fill]]

\* poly_mul(r, a, b, n, tmp)
PolyMul ==
  /\ last.op = "none"
  /\ last' = [op |-> "poly_mul",
              mem |-> poly_mul(heap.mem, MulR(heap.n),
                               Rd(heap.mem, MulA(heap.n), heap.n),
                               Rd(heap.mem, MulB(heap.n), heap.n),
                               heap.n, MulTmp(heap.n))]
  /\ UNCHANGED <<rng, err, heap, nops>>

\* poly_mul_ub(r, a, b, n, tmp)
PolyMulUb ==
  /\ last.op = "none"
  /\ last' = [op |-> "poly_mul_ub",
              mem |-> poly_mul_ub(heap.mem, MulR(heap.n), MulA(heap.n),
                                  MulB(heap.n), heap.n, MulTmp(heap.n))]
  /\ UNCHANGED <<rng, err, heap, nops>>

MulNext == PolyMul \/ PolyMulUb

MulSpec == MulInit /\ [][MulNext]_vars

\* bit i of the polynomial held in the words a
PolyBit(a, i) == (a[i \div WORD_SIZE] \div Pow2(i % WORD_SIZE)) % 2

\* the product over GF(2) of a (na words) and b (nb words), bit by bit:
\* bit k is the parity of the number of pairs of set bits i of a and k - i
\* of b
ClMul(a, na, b, nb) ==
  LET bit(k) ==
        Cardinality({i \in 0..(na * WORD_SIZE - 1) :
                       /\ k - i >= 0 /\ k - i < nb * WORD_SIZE
                       /\ PolyBit(a, i) = 1 /\ PolyBit(b, k - i) = 1}) % 2
  IN  [w \in 0..(na + nb - 1) |->
         For(LAMBDA c, j : c + bit(w * WORD_SIZE + j) * Pow2(j),
             0, WORD_SIZE - 1, 0)]

(***************************************************************************)
(* C26.  poly_mul(r, a, b, n, tmp) leaves in r[0..2n) the product over     *)
(* GF(2) of the n-word polynomials a and b, for every n >= 1: the cases 1  *)
(* to 6 written out in full, and above them the split into ceil(n/2) and   *)
(* floor(n/2) words; poly_mul_ub leaves in r[0..3n) the product of a of 2n *)
(* words and b of n words.                                                 *)
(***************************************************************************)
C26_ProductCorrect ==
  /\ last.op = "poly_mul" =>
       Rd(last.mem, MulR(heap.n), 2 * heap.n)
         = ClMul(Rd(heap.mem, MulA(heap.n), heap.n), heap.n,
                 Rd(heap.mem, MulB(heap.n), heap.n), heap.n)
  /\ last.op = "poly_mul_ub" =>
       Rd(last.mem, MulR(heap.n), 3 * heap.n)
         = ClMul(Rd(heap.mem, MulA(heap.n), 2 * heap.n), 2 * heap.n,
                 Rd(heap.mem, MulB(heap.n), heap.n), heap.n)

\* a product of an odd number of words above 6, split twice
C26_Witness ==
  /\ last.op = "poly_mul"
  /\ heap.n = 13
  /\ heap.fill # 0
  /\ last.mem[MulR(heap.n) + 2 * heap.n - 1] # heap.fill

\* each of the cases written out in full, and poly_mul_ub on 7 words
C26_WitnessUnrolled ==
  /\ last.op = "poly_mul"
  /\ heap.n = 5
  /\ last.mem[MulR(heap.n) + 9] # heap.fill

C26_WitnessUb ==
  /\ last.op = "poly_mul_ub"
  /\ heap.n = 7
  /\ last.mem[MulR(heap.n) + 3 * heap.n - 1] # heap.fill

\* The number of words of tmp that poly_mul(r, a, b, n, tmp) reaches, from
\* the offsets in the source: kara_mul2 uses tmp[0..2], kara_mul3
\* tmp[0..9], kara_mul4 tmp[0..5] and calls kara_mul2 on tmp + 6, kara_mul5
\* and kara_mul6 use tmp[0..8] and call on tmp + 9, kara_mul uses three
\* arrays of n1 words and calls on the words after them.
RECURSIVE PolyMulScratch(_)
PolyMulScratch(n) ==
  IF n <= 1 THEN 0
  ELSE IF n = 2 THEN 3
  ELSE IF n = 3 THEN 10
  ELSE IF n = 4 THEN 6 + PolyMulScratch(2)
  ELSE IF n = 5 THEN 9 + PolyMulScratch(3)
  ELSE IF n = 6 THEN 9 + PolyMulScratch(3)
  ELSE LET n1 == (n + 1) \div 2
           n2 == n \div 2
           s1 == PolyMulScratch(n1)
           s2 == PolyMulScratch(n2)
       IN  3 * n1 + (IF s1 >= s2 THEN s1 ELSE s2)

\* poly_mul_ub keeps n words of tmp and calls poly_mul on tmp + n
PolyMulUbScratch(n) == n + PolyMulScratch(n)

\* the same call on the block with the other filling
OtherFill == WordMod - 1 - heap.fill
OtherMem ==
  [x \in DOMAIN heap.mem |->
     IF x < MulB(heap.n) + heap.n THEN heap.mem[x] ELSE OtherFill]
OtherRun ==
  IF last.op = "poly_mul"
    THEN poly_mul(OtherMem, MulR(heap.n), Rd(OtherMem, MulA(heap.n), heap.n),
                  Rd(OtherMem, MulB(heap.n), heap.n), heap.n, MulTmp(heap.n))
    ELSE poly_mul_ub(OtherMem, MulR(heap.n), MulA(heap.n), MulB(heap.n),
                     heap.n, MulTmp(heap.n))

\* the words the call wrote: those that differ from what they held before,
\* in one of the two runs
Written(other) ==
  {x \in DOMAIN heap.mem : last.mem[x] # heap.mem[x] \/ other[x] # OtherMem[x]}

\* the call wrote within r[0..nr) and tmp[0..nt), its last word of tmp the
\* word ns - 1, and what it left in r does not depend on what r, tmp and
\* the words around them held
WithinRegions(nr, nt, ns) ==
  Let(OtherRun, LAMBDA other :
      /\ \A x \in Written(other) :
           \/ x >= MulR(heap.n) /\ x < MulR(heap.n) + nr
           \/ x >= MulTmp(heap.n) /\ x < MulTmp(heap.n) + nt
      /\ \A x \in Written(other) : x < MulTmp(heap.n) + ns
      /\ ns > 0 => MulTmp(heap.n) + ns - 1 \in Written(other)
      /\ Rd(last.mem, MulR(heap.n), nr) = Rd(other, MulR(heap.n), nr))

(***************************************************************************)
(* C27.  For every n >= 1, poly_mul(r, a, b, n, tmp) reads and writes      *)
(* tmp[0..4n) and r[0..2n) only, poly_mul_ub tmp[0..5n) and r[0..3n)       *)
(* only; with n = 624 the regions that get_poly and state_forward of       *)
(* MT19937 use (poly, pm, ph, tmp) lie within the one allocation of 11 *   *)
(* 624 words.                                                              *)
(***************************************************************************)
C27_ScratchBound ==
  /\ last.op = "poly_mul" =>
       /\ PolyMulScratch(heap.n) <= 4 * heap.n
       /\ WithinRegions(2 * heap.n, 4 * heap.n, PolyMulScratch(heap.n))
  /\ last.op = "poly_mul_ub" =>
       /\ PolyMulUbScratch(heap.n) <= 5 * heap.n
       /\ WithinRegions(3 * heap.n, 5 * heap.n, PolyMulUbScratch(heap.n))
  \* get_poly: poly_mul(pm, poly, table, N, tmp), pm = poly + N of 2N words,
  \* tmp = pm + 2N
  /\ PolyMulScratch(N32) <= 4 * N32
  /\ N32 + 2 * N32 + PolyMulScratch(N32) <= 11 * N32
  \* state_forward: poly_mul_ub(ph, pm, pt, N, tmp), ph = pm + 2N of 3N
  \* words, tmp = ph + 3N
  /\ PolyMulUbScratch(N32) <= 5 * N32
  /\ N32 + 2 * N32 + 3 * N32 + PolyMulUbScratch(N32) <= 11 * N32

\* n = 5, where all but one of the 4n words of tmp are used
C27_Witness ==
  /\ last.op = "poly_mul"
  /\ heap.n = 5
  /\ PolyMulScratch(heap.n) = 4 * heap.n - 1
  /\ last.mem[MulTmp(heap.n) + 4 * heap.n - 2] # heap.fill
  /\ last.mem[MulTmp(heap.n) + 4 * heap.n - 1] = heap.fill

\* poly_mul_ub on an odd number of words above 6
C27_WitnessUb ==
  /\ last.op = "poly_mul_ub"
  /\ heap.n = MaxLimbs
  /\ last.mem[MulTmp(heap.n)] # heap.fill

(***************************************************************************)
(* The reduction at full width.  A word of 32 bits is the set of the       *)
(* positions of its one bits; the tables phi_bit_pos and phi_block_pos are *)
(* those of mt19937_poly.c; r and tmp lie as get_poly passes them, r = pm  *)
(* of 2 N words and tmp = pm + 2 N, the rest of the block of 11 N words.   *)
(***************************************************************************)
WORD_SIZE_32 == 32
PHI_NUM_NBITS_32 == 134
PHI_NUM_BLOCK_32 == 34
MT19937_POLY_LEN_32 == 19937
MUL_NBIT_32(x) == x * WORD_SIZE_32
DIV_NBIT_32(x) == x \div WORD_SIZE_32
MOD_NBIT_32(x) == x % WORD_SIZE_32

phi_bit_pos_32 ==
  <<0,1189,1416,1585,1643,1870,2493,2773,3000,3227,3454,3681,3908,4135,
    4362,4753,5661,6337,6569,7129,7477,7525,7583,7752,7979,8206,
    9505,9901,9969,10128,10693,10761,10920,11089,11147,11157,11215,11321,
    11374,11384,11485,11611,11712,11717,11838,11881,11944,11997,12277,12335,
    12393,12504,12509,12620,12673,12731,12736,12789,12905,12958,12963,13137,
    13185,13190,13243,13301,13412,13528,13533,13639,13697,13760,13813,13866,
    14093,14151,14209,14320,14325,14436,14547,14552,14605,14721,14774,14779,
    14953,15001,15006,15059,15117,15228,15344,15349,15455,15513,15576,15629,
    15682,15909,15967,16025,16136,16141,16252,16363,16368,16421,16537,16590,
    16595,16817,16822,16875,16933,17044,17160,17271,17329,17445,17498,17725,
    17783,17841,17952,18068,18179,18237,18406,18633,18691,18860,19087,19314>>

phi_block_pos_32 ==
  <<39875,39252,38629,38006,37383,36760,36137,35514,34891,34268,33645,33022,
    32399,31776,31153,30530,29907,29284,28661,28038,27415,26792,26169,
    25546,24923,24300,23677,23054,22431,21808,21185,20562,19939,19937>>

\* w >> k, w << k, a ^ b and w & ((1 << i) - 1) on words of 32 bits
BShr(w, k) == {b - k : b \in {e \in w : e >= k}}
BShl(w, k) == {b + k : b \in {e \in w : e + k < WORD_SIZE_32}}
BXor(a, b) == (a \ b) \cup (b \ a)
BLow(w, i) == {b \in w : b < i}

Max(a, b) == IF a >= b THEN a ELSE b

\* where r and tmp of poly_mod_phi lie, and the words the two have
PM_32 == 0
TMP_32 == PM_32 + 2 * N32
MEM_32 == 10 * N32

(***************************************************************************)
(* The state of a run: mem, prev of shifted_add, and what the run has      *)
(* touched so far: rhi the highest word of mem that was read or written    *)
(* through r, thi the highest word copy_bits wrote, sh the largest shift.  *)
(***************************************************************************)
Touch(c, x, y, s) ==
  [c EXCEPT !.rhi = Max(@, x), !.thi = Max(@, y), !.sh = Max(@, s)]

\* r[0 ..] = the bits start .. end - 1 of the polynomial at mem[a0]
copy_bits_32(c, r, a0, start, end) ==
  LET left  == MOD_NBIT_32(start)
      right == WORD_SIZE_32 - left
      len   == end - start
      n     == DIV_NBIT_32(len)
      a     == a0 + DIV_NBIT_32(start)
      i     == MOD_NBIT_32(len)
  IN  Let(IF left # 0
            THEN For(LAMBDA d, k :
                       Touch([d EXCEPT !.mem[r + k] =
                                BShr(d.mem[a + k], left)
                                  \cup BShl(d.mem[a + k + 1], right)],
                             a + k + 1, r + k, Max(left, right)),
                     0, n - 1, c)
            \* memcpy(r, a, MUL_NBIT(n)): that many bytes, four to a word
            ELSE For(LAMBDA d, k :
                       Touch([d EXCEPT !.mem[r + k] = d.mem[a + k]],
                             a + k, r + k, 0),
                     0, MUL_NBIT_32(n) \div 4 - 1, c),
          LAMBDA c1 :
          IF i # 0
            THEN Let(BShr(c1.mem[a + n], left), LAMBDA w0 :
                 Let(IF left # 0 /\ MOD_NBIT_32(end) # 0
                       THEN w0 \cup BShl(c1.mem[a + n + 1], right)
                       ELSE w0,
                     LAMBDA w1 :
                     Touch([c1 EXCEPT !.mem[r + n] = BLow(w1, i)],
                           IF left # 0 /\ MOD_NBIT_32(end) # 0
                             THEN a + n + 1 ELSE a + n,
                           r + n,
                           IF left # 0 /\ MOD_NBIT_32(end) # 0
                             THEN Max(Max(left, right), i)
                             ELSE Max(left, i))))
            ELSE c1)

\* r += a << shift, a of n words at mem[a]
shifted_add_32(c, r, a, n, shift) ==
  IF shift = 0
    THEN For(LAMBDA d, i :
               Touch([d EXCEPT !.mem[r + i] = BXor(@, d.mem[a + i])],
                     r + i, -1, 0),
             0, n - 1, c)
    ELSE
      LET right == WORD_SIZE_32 - shift
      IN  Let(For(LAMBDA d, i :
                    Touch([d EXCEPT !.mem[r + i] =
                             BXor(@, BShl(d.mem[a + i], shift)
                                       \cup BShr(d.prev, right)),
                           !.prev = d.mem[a + i]],
                          r + i, -1, Max(shift, right)),
                  0, n - 1, [c EXCEPT !.prev = {}]),
              LAMBDA d :
                Touch([d EXCEPT !.mem[r + n] = BXor(@, BShr(d.prev, right))],
                      r + n, -1, right))

\* one iteration of the loop over j of poly_mod_phi
mod_phi_bit_32(c, r, tmp, start, size, j) ==
  LET pos == phi_bit_pos_32[j + 1] + start - MT19937_POLY_LEN_32
  IN  shifted_add_32(c, r + DIV_NBIT_32(pos), tmp, size, MOD_NBIT_32(pos))

\* the loop over j alone: the block is copied and added below, not cleared
mod_phi_block_32_kept(c, r, tmp, i) ==
  LET start == phi_block_pos_32[i + 2]
      end   == phi_block_pos_32[i + 1]
      size  == DIV_NBIT_32(end - start + WORD_SIZE_32 - 1)
  IN  Let(copy_bits_32(c, tmp, r, start, end), LAMBDA c1 :
          For(LAMBDA d, j : mod_phi_bit_32(d, r, tmp, start, size, j),
              0, PHI_NUM_NBITS_32 - 1, c1))

\* one iteration of the loop over i of poly_mod_phi
mod_phi_block_32(c, r, tmp, i) ==
  LET start == phi_block_pos_32[i + 2]
      end   == phi_block_pos_32[i + 1]
      size  == DIV_NBIT_32(end - start + WORD_SIZE_32 - 1)
  IN  Let(copy_bits_32(c, tmp, r, start, end), LAMBDA c1 :
      Let(For(LAMBDA d, j : mod_phi_bit_32(d, r, tmp, start, size, j),
              0, PHI_NUM_NBITS_32 - 1, c1),
          LAMBDA c2 :
          shifted_add_32(c2, r + DIV_NBIT_32(start), tmp, size,
                         MOD_NBIT_32(start))))

(***************************************************************************)
(* The polynomials that are reduced: m * phi + q, for a list m of          *)
(* exponents (the quotient) and a set q of exponents below 19937 (the      *)
(* residue), so that the residue of each is known beforehand.              *)
(***************************************************************************)
MaxRun == 40
PhiBits ==
  {phi_bit_pos_32[j] : j \in 1..PHI_NUM_NBITS_32} \cup {MT19937_POLY_LEN_32}
MulPhi(m) ==
  For(LAMBDA acc, k : BXor(acc, {p + m[k] : p \in PhiBits}), 1, Len(m), {})

PhiCases == {"top", "unit", "copy", "run", "low", "blocks"}
Quotient(name) ==
  CASE name = "top"    -> <<MT19937_POLY_LEN_32>>
    [] name = "unit"   -> <<0>>
    \* the two ends of the block that starts on a word boundary
    [] name = "copy"   -> <<31776 - MT19937_POLY_LEN_32,
                            32398 - MT19937_POLY_LEN_32>>
    [] name = "run"    -> [k \in 1..MaxRun |-> MT19937_POLY_LEN_32 + 1 - k]
    [] name = "low"    -> <<>>
    [] name = "blocks" -> [k \in 1..(PHI_NUM_BLOCK_32 - 1) |->
                             phi_block_pos_32[k + 1] - MT19937_POLY_LEN_32]
Residue(name) ==
  CASE name = "top"    -> {}
    [] name = "unit"   -> {0, MT19937_POLY_LEN_32 - 1}
    [] name = "copy"   -> {31, 32}
    [] name = "run"    -> {k \in 0..(MT19937_POLY_LEN_32 - 1) : k % 61 = 5}
    [] name = "low"    -> {0, 100, MT19937_POLY_LEN_32 - 1}
    [] name = "blocks" -> {k \in 0..(MT19937_POLY_LEN_32 - 1) : k % 97 = 3}

\* the words of r that hold the polynomial with the exponents S, and tmp
\* filled with what it held before
WordsOf(S, fill) ==
  Let(S, LAMBDA bits :
      [x \in 0..(MEM_32 - 1) |->
         IF x >= PM_32 /\ x < PM_32 + 2 * N32
           THEN {b \in 0..(WORD_SIZE_32 - 1) :
                   MUL_NBIT_32(x - PM_32) + b \in bits}
           ELSE fill])
\* the polynomial that the words r[0 .. 2N) hold
BitsOf(mem) ==
  UNION {{MUL_NBIT_32(x) + b : b \in mem[PM_32 + x]} : x \in 0..(2 * N32 - 1)}

\* A state keeps of mem the words that are not what the word held when
\* nothing had been stored yet: zero in r, fill in tmp.
Blank(x, fill) == IF x >= PM_32 /\ x < PM_32 + 2 * N32 THEN {} ELSE fill
Pack(mem, fill) ==
  Let(mem, LAMBDA m :
      [x \in {y \in DOMAIN m : m[y] # Blank(y, fill)} |-> m[x]])
Unpack(kept, fill) ==
  Let(kept, LAMBDA m :
      [x \in 0..(MEM_32 - 1) |->
         IF x \in DOMAIN m THEN m[x] ELSE Blank(x, fill)])

PhiInit ==
  /\ rng = NULL
  /\ err = 0
  /\ nops = 0
  /\ heap \in {[name |-> name, fill |-> fill] :
                 name \in PhiCases,
                 fill \in {{}, 0..(WORD_SIZE_32 - 1)}}
  /\ \E mem \in {Pack(WordsOf(BXor(MulPhi(Quotient(heap.name)),
                                   Residue(heap.name)), heap.fill),
                       heap.fill)} :
       last = [op |-> "none", pre |-> mem,
               c |-> [mem |-> mem, prev |-> {},
                      rhi |-> -1, thi |-> -1, sh |-> 0]]

\* poly_mod_phi, one block at a time: nops is its i
ModPhiBlock ==
  /\ nops < PHI_NUM_BLOCK_32 - 1
  /\ \E c0 \in {[last.c EXCEPT !.mem = Unpack(@, heap.fill)]} :
     \E c \in {mod_phi_block_32(c0, PM_32, TMP_32, nops)} :
       last' = [op |-> "mod_phi_block", pre |-> last.c.mem,
                c |-> [c EXCEPT !.mem = Pack(@, heap.fill)]]
  /\ nops' = nops + 1
  /\ UNCHANGED <<rng, err, heap>>

PhiNext == ModPhiBlock
PhiSpec == PhiInit /\ [][PhiNext]_vars

\* mem after the last step, and before it
MemNow == Unpack(last.c.mem, heap.fill)
MemBefore == Unpack(last.pre, heap.fill)
\* bit k of the polynomial at r
CoefAt(mem, k) == MOD_NBIT_32(k) \in mem[PM_32 + DIV_NBIT_32(k)]
\* the bits from k up of word x of r
From(mem, x, k) == {b \in mem[PM_32 + x] : MUL_NBIT_32(x) + b >= k}

(***************************************************************************)
(* C28.  For a polynomial in r[0 .. 2 * 624) with no bit from 39875 up,    *)
(* poly_mod_phi leaves no bit of r from 19937 up, and the bits below are   *)
(* the residue modulo phi of the polynomial; the step for the block        *)
(* [start, end) changes no bit from end up and leaves the block zero.      *)
(***************************************************************************)
C28_ReducesCompletely ==
  \E now \in {MemNow} : \E before \in {MemBefore} :
    /\ last.op = "mod_phi_block" =>
         LET start == phi_block_pos_32[nops + 1]
             end   == phi_block_pos_32[nops]
         IN  /\ \A x \in DIV_NBIT_32(end)..(2 * N32 - 1) :
                  From(now, x, end) = From(before, x, end)
             /\ \A k \in start..(end - 1) : ~CoefAt(now, k)
    /\ nops = PHI_NUM_BLOCK_32 - 1 =>
         BitsOf(now) = Residue(heap.name)

\* the reduction of phi + t^19936 + 1, whose residue has the top bit, is done
C28_Witness ==
  /\ nops = PHI_NUM_BLOCK_32 - 1
  /\ heap.name = "unit"
  /\ CoefAt(MemNow, MT19937_POLY_LEN_32 - 1)

\* the block that starts at a word boundary has been reduced
C28_WitnessCopy ==
  /\ last.op = "mod_phi_block"
  /\ heap.name = "copy"
  /\ MOD_NBIT_32(phi_block_pos_32[nops + 1]) = 0
  /\ MemNow # MemBefore

\* the widest block of phi_block_pos, and the words that hold it
MaxBlockWidth ==
  LET W == {phi_block_pos_32[i] - phi_block_pos_32[i + 1] :
              i \in 1..(PHI_NUM_BLOCK_32 - 1)}
  IN  CHOOSE w \in W : \A v \in W : v <= w
TmpLimbs == (MaxBlockWidth + WORD_SIZE_32 - 1) \div WORD_SIZE_32

\* what the run has touched of r and used as shifts is within bounds
ReductionInR ==
  /\ last.c.rhi < PM_32 + 2 * N32
  /\ last.c.sh < WORD_SIZE_32

(***************************************************************************)
(* C30.  During poly_mod_phi on r[0 .. 2 * 624), copy_bits writes at most  *)
(* 20 words of tmp (the words that hold the widest block) and reads words  *)
(* of r below 1248 only, every shifted_add stays below word 1248 of r, and *)
(* no shift is by 32 bits or more.                                         *)
(***************************************************************************)
C30_ReductionBounds ==
  /\ TmpLimbs = 20
  /\ last.c.thi < TMP_32 + TmpLimbs
  /\ ReductionInR

\* the last call was a reset or a reset_all with a step above the maximum,
\* the error cell not negative at entry
StepTooLarge ==
  /\ last.op \in {"reset", "reset_all"}
  /\ ~PRAND_IS_ERROR(last.preErr)
  /\ ~StepInRange(last.kind, last.step)

\* the state that the call seeds: the stream it was given, rng->state for
\* reset_all
ResetTarget ==
  IF last.op = "reset" THEN rng.state_stream[last.i] ELSE 0

(***************************************************************************)
(* C29.  reset and reset_all of both generators seed before they test the  *)
(* step: called with the error cell not negative and a step above the      *)
(* maximum, they leave -3 in the error cell, the seeded state in the       *)
(* stream they seed (stream 0 for reset_all), and every other stream as it *)
(* was.                                                                    *)
(***************************************************************************)
C29_ReseedBeforeStepCheck ==
  StepTooLarge =>
    /\ err = PRAND_ERR_STEP
    /\ err = -3
    /\ rng.st[ResetTarget] = SeededState
    /\ \A k \in DOMAIN rng.st \ {ResetTarget} : rng.st[k] = last.pre.st[k]

\* reset_all on two streams or more that were not at the seeded state
C29_Witness ==
  /\ StepTooLarge
  /\ last.op = "reset_all"
  /\ last.kind = PRAND_RNG_MRG32K3A
  /\ rng.nstream >= 2
  /\ last.pre.st[0] # SeededState
  /\ rng.st[0] = SeededState
  /\ rng.st[1] = last.pre.st[1]

\* reset of stream 1 of MT19937
C29_WitnessReset ==
  /\ StepTooLarge
  /\ last.op = "reset"
  /\ last.kind = PRAND_RNG_MT19937
  /\ last.i = 1
  /\ last.pre.st[ResetTarget] # SeededState
  /\ rng.st[ResetTarget] = SeededState

====
